---- MODULE Spec2Model ----
(***************************************************************************)
(* Model of the asynchronous OCR batch pipeline of the PDF utilities web   *)
(* application (src/src/web_app/services/ocr_service.py and ocr_cache.py). *)
(*                                                                         *)
(* Text is modelled as a sequence of tokens (integers):                    *)
(*   WS            one whitespace character                                *)
(*   Hdr(n)        the marker string "--- Page n ---"                      *)
(*   Txt(i)        a non-blank word                                        *)
(*   named tokens  the literal placeholder strings of the code             *)
(* Python's None is the one-token text <<NoneTok>>.                        *)
(***************************************************************************)
EXTENDS Integers, Sequences, FiniteSets, TLC

\* ------------------------------------------------------------------ bounds
PageCount == 3            \* pages of the uploaded document
MaxPagesPerChunk == 2     \* OCR_PAGES_PER_CHUNK ranges over 1..MaxPagesPerChunk
MaxBatches == 2           \* batches run one after the other on the same cache

MaxConcurrent == 2        \* OCR_CONCURRENT_REQUESTS ranges over 1..MaxConcurrent
PlanMaxPage == 6          \* SpecPlan: requests within pages 1..PlanMaxPage
PlanMaxChunk == 3         \* SpecPlan: OCR_PAGES_PER_CHUNK ranges over 1..PlanMaxChunk
KeyMaxPage == 3           \* SpecKey: page numbers 1..KeyMaxPage
KeyMaxLen == 2            \* SpecKey: page lists of at most KeyMaxLen pages
FaultMaxPage == 2         \* SpecFaults: requests within pages 1..FaultMaxPage
FaultMaxChunk == 2        \* SpecFaults: OCR_PAGES_PER_CHUNK ranges over 1..FaultMaxChunk
SubsetMaxLen == 3         \* SpecSubset: page lists of at most SubsetMaxLen pages
MaxConns == 2              \* SpecCache: connections open at the same time
CacheMaxNow == 2           \* SpecCache: the clock runs over 0..CacheMaxNow ticks
SweepNow == 6              \* SpecSweep: the tick at which the sweep runs
MaxRetentionDays == 1      \* SpecSweep: OCR_CACHE_RETENTION_DAYS ranges over 1..MaxRetentionDays
TicksPerDay == 2           \* resolution of the clock: ticks in a day
LiveMaxPage == 2           \* SpecLive: requests within pages 1..LiveMaxPage
RangeMaxLen == 2          \* SpecRange: ranges of at most RangeMaxLen pages
MaxFaults == 1            \* SpecFaults: exceptions raised besides LLM timeouts
OtherMaxChunks == 2       \* SpecTwoBatches: chunks of the second request

\* ------------------------------------------------------- program constants
OCR_MAX_RETRIES == 3      \* config.py
OCR_RETRY_DELAY_BASE == 1 \* config.py (1.0 second)

Pages == 1..PageCount

\* ------------------------------------------------------------------ tokens
WS == 0
Hdr(n) == n
IsHdr(t) == t \in 1..99
Txt(i) == 100 + i
NoneTok == 200
ParsingFailedTok == 201        \* "[OCR Parsing Failed]"
ParsingErrorTok == 202         \* "[OCR Parsing Error]"
ExtractErrorTok(p) == 300 + p  \* "[Error extracting text from page p: ...]"

None == <<NoneTok>>
NoError == "None"

\* Python truthiness of result["text"]: None and "" are falsy.
Truthy(text) == text # None /\ text # <<>>

\* ------------------------------------------------------------ text helpers
RECURSIVE LStrip(_)
LStrip(s) == IF s # <<>> /\ Head(s) = WS THEN LStrip(Tail(s)) ELSE s

RECURSIVE RStrip(_)
RStrip(s) ==
    IF s # <<>> /\ s[Len(s)] = WS THEN RStrip(SubSeq(s, 1, Len(s) - 1)) ELSE s

\* str.strip()
Strip(s) == RStrip(LStrip(s))

\* re.split(r'--- Page \d+ ---', text): the pieces between the markers,
\* empty pieces included, always one more piece than there are markers.
RECURSIVE SplitFrom(_, _, _)
SplitFrom(s, i, cur) ==
    IF i > Len(s) THEN <<cur>>
    ELSE IF IsHdr(s[i]) THEN <<cur>> \o SplitFrom(s, i + 1, <<>>)
    ELSE SplitFrom(s, i + 1, Append(cur, s[i]))

ReSplit(s) == SplitFrom(s, 1, <<>>)

\* re.findall(r'--- Page (\d+) ---', text) followed by int()
ReFindall(s) == SelectSeq(s, IsHdr)

\* [p.strip() for p in parts if p.strip()]
RECURSIVE CleanParts(_)
CleanParts(parts) ==
    IF parts = <<>> THEN <<>>
    ELSE IF Strip(Head(parts)) # <<>>
         THEN <<Strip(Head(parts))>> \o CleanParts(Tail(parts))
         ELSE CleanParts(Tail(parts))

SeqRange(s) == {s[i] : i \in DOMAIN s}

\* sorted(list of integers), duplicates kept
RECURSIVE Sorted(_)
Sorted(s) ==
    IF s = <<>> THEN <<>>
    ELSE LET m == CHOOSE i \in DOMAIN s : \A j \in DOMAIN s : s[i] <= s[j]
         IN  <<s[m]>> \o Sorted(SubSeq(s, 1, m - 1) \o SubSeq(s, m + 1, Len(s)))

RECURSIVE Flatten(_)
Flatten(ss) == IF ss = <<>> THEN <<>> ELSE Head(ss) \o Flatten(Tail(ss))

Min(a, b) == IF a <= b THEN a ELSE b

\* ------------------------------------------------------ parse_llm_response
\* The dict of the code is a function whose domain is the set of keys set.
ParseMatches(response_text) ==
    Len(ReFindall(response_text)) = Len(CleanParts(ReSplit(response_text)))

\* parse_llm_response as it would be if the fallback gave the response to
\* the last page of the chunk.
parse_llm_response_LastPage(response_text, page_nums) ==
    IF Len(page_nums) = 1
    THEN [p \in {page_nums[1]} |-> Strip(response_text)]
    ELSE IF ParseMatches(response_text)
         THEN [h \in SeqRange(ReFindall(response_text)) \cap SeqRange(page_nums) |->
                 LET headers == ReFindall(response_text)
                     last == CHOOSE i \in DOMAIN headers :
                               /\ headers[i] = h
                               /\ \A j \in DOMAIN headers :
                                    headers[j] = h => j <= i
                 IN  CleanParts(ReSplit(response_text))[last]]
         ELSE [p \in SeqRange(page_nums) |->
                 IF p = page_nums[Len(page_nums)] THEN Strip(response_text)
                 ELSE <<ParsingFailedTok>>]

parse_llm_response(response_text, page_nums) ==
    IF Len(page_nums) = 1
    THEN [p \in {page_nums[1]} |-> Strip(response_text)]
    ELSE LET headers == ReFindall(response_text)
             cleaned_parts == CleanParts(ReSplit(response_text))
         IN  IF Len(headers) = Len(cleaned_parts)
             THEN [h \in SeqRange(headers) \cap SeqRange(page_nums) |->
                     \* a later header with the same number overwrites
                     LET last == CHOOSE i \in DOMAIN headers :
                                   /\ headers[i] = h
                                   /\ \A j \in DOMAIN headers :
                                        headers[j] = h => j <= i
                     IN  cleaned_parts[last]]
             ELSE [p \in SeqRange(page_nums) |->
                     IF p = page_nums[1] THEN Strip(response_text)
                     ELSE <<ParsingFailedTok>>]

\* --------------------------------------------------------- create_cache_key
\* compute_content_hash (SHA-256) is taken to be injective on its input, so
\* the key is the canonical string itself: name:size:mtime:sorted(pages).
\* create_cache_key as it would be without sorted().
create_cache_key_Unsorted(d, page_nums) == <<d.name, d.size, d.mtime, page_nums>>

\* create_cache_key as it would be if the page numbers were left out.
create_cache_key_NoPages(d, page_nums) == <<d.name, d.size, d.mtime, <<>>>>

create_cache_key(d, page_nums) == <<d.name, d.size, d.mtime, Sorted(page_nums)>>

\* ---------------------------------------------------- create_pdf_subset_bytes
\* The fragment is modelled by the source page numbers of its pages, in order.
\* lines 70-75: page numbers outside the document are dropped; the call raises
\* only when none is left.  lines 78-82: the kept pages are inserted in order.
InDocument(page_count, p) == 0 <= p - 1 /\ p - 1 < page_count

SubsetOutOfRange == "out of range"

KeepInDocument(page_count, page_nums) ==
    SelectSeq(page_nums, LAMBDA p : InDocument(page_count, p))

create_pdf_subset_bytes(page_count, page_nums) ==
    LET zero_based_pages ==
            [i \in DOMAIN KeepInDocument(page_count, page_nums) |->
               KeepInDocument(page_count, page_nums)[i] - 1]
    IN  IF zero_based_pages = <<>>
        THEN [raised |-> TRUE, error |-> SubsetOutOfRange, pages |-> <<>>]
        ELSE [raised |-> FALSE, error |-> NoError,
              pages |-> [i \in DOMAIN zero_based_pages |-> zero_based_pages[i] + 1]]

\* ------------------------------------------------- partition into chunks
\* while i < len(page_list): chunk = page_list[i:min(i + size, len)]
\* ChunkFrom as it would be with chunk_end one page too far.
RECURSIVE ChunkFrom_OneTooMany(_, _, _)
ChunkFrom_OneTooMany(page_list, i, size) ==
    IF i >= Len(page_list) THEN <<>>
    ELSE LET chunk_end == Min(i + size + 1, Len(page_list))
         IN  <<SubSeq(page_list, i + 1, chunk_end)>>
               \o ChunkFrom_OneTooMany(page_list, chunk_end, size)

RECURSIVE ChunkFrom(_, _, _)
ChunkFrom(page_list, i, size) ==
    IF i >= Len(page_list) THEN <<>>
    ELSE LET chunk_end == Min(i + size, Len(page_list))
         IN  <<SubSeq(page_list, i + 1, chunk_end)>>
               \o ChunkFrom(page_list, chunk_end, size)

MakeChunks(page_list, size) == ChunkFrom(page_list, 0, size)

\* list(range(start_page, end_page + 1))
PageList(sp, ep) == [i \in 1..(ep - sp + 1) |-> sp + i - 1]


\* ------------------------------------------------------------------- state
VARIABLES
    doc,            \* identity of the PDF file: name, st_size, st_mtime
    OCR_PAGES_PER_CHUNK,       \* configured pages per LLM call
    OCR_CONCURRENT_REQUESTS,   \* configured size of the semaphore
    start_page, end_page,   \* the request
    phase,          \* position of process_document_async
    batch_no,       \* how many batches have been started
    page_chunks,    \* chunks of the running gather (initial pass or retry)
    tasks,          \* one process_page_chunk task per chunk
    semaphore,      \* free slots of asyncio.Semaphore(OCR_CONCURRENT_REQUESTS)
    all_results,    \* running list of page results
    failed_pages,   \* results the next retry attempt is built from
    retry_attempt,  \* loop variable of the retry loop (0 in the initial pass)
    cache,          \* table ocr_cache: key -> [text, input_tokens, output_tokens]
    batch_result,   \* the dictionary returned to the caller
    \* history (not read by the program)
    cache0,         \* the cache when the batch started
    submitted,      \* page -> times it was handed to process_page_chunk
    llm_calls,      \* generate_content calls issued in this batch
    llm_log,        \* <<attempt, chunk>> -> what the LLM call returned
    attempt_log,    \* page -> method of its result in attempt 0, 1, 2, ...
    offline_log,    \* page -> text extract_with_pymupdf_fallback returned
    prev,           \* the previous batch: the document it saw, whether every
                    \* LLM call succeeded, and if so the result it returned
    out_of_order,   \* a task of this batch finished before an earlier one
    call_args,      \* arguments of a direct call of a pure function
    call_ret,       \* what that call returned
    faults,         \* exceptions raised so far by the file, the cache and the API
    \* the cache database as ocr_cache.py sees it
    db,             \* rows of table ocr_cache
    now,            \* the clock
    conn,           \* connection -> the call of ocr_cache.py running on it
    OCR_CACHE_RETENTION_DAYS,  \* configured retention of the sweep
    \* history (not read by the program)
    last_commit,    \* key -> what the last committed save wrote under it
    db0,            \* the rows when the running sweep started
    sleep_log,      \* delays asyncio.sleep has waited in this batch, in order
    sweep_task,     \* the task created for clean_old_cache_entries, if any
    other           \* a second process_document_async call running in the process

\* what a batch is called with, and the configuration it runs under
request == <<doc, OCR_PAGES_PER_CHUNK, OCR_CONCURRENT_REQUESTS, start_page,
             end_page>>

\* the database file and the clock
store == <<db, now, conn, OCR_CACHE_RETENTION_DAYS, last_commit, db0>>

\* what runs beside the chunk tasks of a batch
aside == <<sleep_log, sweep_task, other>>

\* everything of the batch pipeline
batch == <<request, aside, faults, call_args, call_ret, phase, batch_no, page_chunks,
           tasks, semaphore, all_results, failed_pages, retry_attempt, cache,
           batch_result, cache0, submitted, llm_calls, llm_log, attempt_log,
           offline_log, prev, out_of_order>>

vars == <<request, aside, faults, store, call_args, call_ret, phase, batch_no, page_chunks,
          tasks, semaphore, all_results, failed_pages, retry_attempt, cache,
          batch_result, cache0, submitted, llm_calls, llm_log, attempt_log,
          offline_log, prev, out_of_order>>

NoResult == [full_text |-> None]

\* no second call is running
NoOther == [phase |-> "none", semaphore |-> 0, tasks |-> <<>>]
NoPrev == [valid |-> FALSE, doc |-> [name |-> "", size |-> 0, mtime |-> 0],
           all_ok |-> FALSE, result |-> NoResult]

\* --------------------------------------------------- what the world returns
\* Token usage reported by the API for one call.
UsageIn == 5
UsageOut == 3

\* A well-formed answer: every page under its own marker.
RECURSIVE WellFormed(_)
WellFormed(page_nums) ==
    IF page_nums = <<>> THEN <<>>
    ELSE <<Hdr(Head(page_nums)), WS, Txt(Head(page_nums)), WS>>
           \o WellFormed(Tail(page_nums))

\* Response texts the model lets the LLM return for a chunk.
Responses(page_nums) ==
    IF Len(page_nums) = 1
    THEN {<<Txt(page_nums[1])>>, <<WS>>}
    ELSE {WellFormed(page_nums),
          <<>>,                                         \* nothing at all
          <<Txt(page_nums[1])>>,                        \* no marker
          <<Txt(0), WS>> \o WellFormed(page_nums),       \* text before the first marker
          <<Hdr(page_nums[1]), WS>> \o WellFormed(Tail(page_nums))}  \* empty segment

\* generate_content under asyncio.wait_for: a response, or an exception.
LLMOutcomes(page_nums) ==
    {[kind |-> "ok", text |-> t, input_tokens |-> UsageIn,
      output_tokens |-> UsageOut, msg |-> NoError] : t \in Responses(page_nums)}
    \cup {[kind |-> "error", text |-> None, input_tokens |-> 0,
           output_tokens |-> 0, msg |-> "timeout"]}

\* ---------------------------------------------- extract_with_pymupdf_fallback
\* Returns the markdown or the raw text of the page (possibly empty), or the
\* error placeholder when both extractions raised.  It never raises.
extract_with_pymupdf_fallback(p) ==
    {<<Txt(p)>>, <<>>, <<ExtractErrorTok(p)>>}

\* ------------------------------------------------------- process_page_chunk
PageResult(p, text, it, ot, method, success, error, rc) ==
    [page |-> p, text |-> text, input_tokens |-> it, output_tokens |-> ot,
     method |-> method, success |-> success, error |-> error, retry_count |-> rc]

\* SuccessResults as it would be if every page reported the chunk's whole usage.
SuccessResults_Undivided(page_nums, combined_text, it, ot, method) ==
    LET parsed_texts == parse_llm_response(combined_text, page_nums)
    IN  [i \in DOMAIN page_nums |->
           PageResult(page_nums[i],
                      IF page_nums[i] \in DOMAIN parsed_texts
                      THEN parsed_texts[page_nums[i]]
                      ELSE <<ParsingErrorTok>>,
                      it, ot, method, TRUE, NoError, 0)]

\* lines 292-310: parse and build one successful result per page
SuccessResults(page_nums, combined_text, it, ot, method) ==
    LET parsed_texts == parse_llm_response(combined_text, page_nums)
        num_pages == Len(page_nums)
    IN  [i \in DOMAIN page_nums |->
           PageResult(page_nums[i],
                      IF page_nums[i] \in DOMAIN parsed_texts
                      THEN parsed_texts[page_nums[i]]
                      ELSE <<ParsingErrorTok>>,
                      it \div num_pages, ot \div num_pages,
                      method, TRUE, NoError, 0)]

\* FailedResults as it would be if only the chunk's first page were reported.
FailedResults_FirstPageOnly(page_nums, error, rc) ==
    <<PageResult(page_nums[1], None, 0, 0, "failed", FALSE, error, rc)>>

\* lines 312-323 (and 376-390, 457-470): one failed result per page
FailedResults(page_nums, error, rc) ==
    [i \in DOMAIN page_nums |->
       PageResult(page_nums[i], None, 0, 0, "failed", FALSE, error, rc)]

\* exc: the message of the exception raised inside the task's try block, if any
NewTask == [pc |-> "waiting", combined_text |-> None, input_tokens |-> 0,
            output_tokens |-> 0, results |-> <<>>, exc |-> NoError]

\* ------------------------------------------------------------------- Init
TheDoc == [name |-> "a.pdf", size |-> 1, mtime |-> 1]

NoCall == <<>>

\* The cache database is not looked at directly: no rows, no call running.
StoreIdle ==
    /\ db = {}
    /\ now = 0
    /\ conn = <<>>
    /\ OCR_CACHE_RETENTION_DAYS = 1
    /\ last_commit = <<>>
    /\ db0 = {}

\* Before process_document_async runs: pageNums are the page numbers a request
\* may name.
BatchIdle(pageNums, maxChunk) ==
    /\ doc = TheDoc
    /\ OCR_PAGES_PER_CHUNK \in 1..maxChunk
    /\ OCR_CONCURRENT_REQUESTS \in 1..MaxConcurrent
    /\ phase = "Planning"
    /\ batch_no = 1
    /\ page_chunks = <<>>
    /\ tasks = <<>>
    /\ semaphore = 0
    /\ all_results = <<>>
    /\ failed_pages = <<>>
    /\ retry_attempt = 0
    /\ cache = <<>>
    /\ batch_result = NoResult
    /\ cache0 = <<>>
    /\ submitted = [p \in pageNums |-> 0]
    /\ llm_calls = 0
    /\ llm_log = <<>>
    /\ attempt_log = [p \in pageNums |-> <<>>]
    /\ offline_log = <<>>
    /\ prev = NoPrev
    /\ out_of_order = FALSE
    /\ faults = 0
    /\ sleep_log = <<>>
    /\ sweep_task = "none"
    /\ other = NoOther

InitBatch(pageNums, maxChunk) ==
    /\ BatchIdle(pageNums, maxChunk)
    /\ StoreIdle

\* The caller passes a range the route has validated (routes/pdf.py, 522-524).
InitWith(maxPage, maxChunk) ==
    /\ start_page \in 1..maxPage
    /\ end_page \in start_page..maxPage
    /\ InitBatch(1..maxPage, maxChunk)

\* A valid request against a document of PageCount pages, a cold cache.
Init ==
    /\ InitWith(PageCount, MaxPagesPerChunk)
    /\ call_args = NoCall
    /\ call_ret = NoCall

\* ------------------------------------------------------------ small helpers
Put(f, k, v) == [x \in DOMAIN f \cup {k} |-> IF x = k THEN v ELSE f[x]]

PagesOf(results) == [i \in DOMAIN results |-> results[i].page]

\* IsFailed as it would be if every result counted as failed.
IsFailed_Always(r) == TRUE

IsFailed(r) == ~r.success

RECURSIVE SumOf(_, _)
SumOf(results, field) ==
    IF results = <<>> THEN 0
    ELSE Head(results)[field] + SumOf(Tail(results), field)

AllDone == tasks # <<>> /\ \A i \in DOMAIN tasks : tasks[i].pc = "done"

\* gather as it would be if it returned with the first task that completes.
Gathered_FirstCompleted == \E i \in DOMAIN tasks : tasks[i].pc = "done"

\* asyncio.gather returns once every task has (at once when there is none).
Gathered == \A i \in DOMAIN tasks : tasks[i].pc = "done"

\* Task i is about to finish while a task created before it has not.
FinishesEarly(i) == \E j \in DOMAIN tasks : j < i /\ tasks[j].pc # "done"

\* Held slots: the tasks inside "async with semaphore".
InGate(i) == tasks[i].pc \in {"lookup", "llm", "save"}
Holders == {i \in DOMAIN tasks : InGate(i)}

CountSubmitted(chunks) ==
    [p \in DOMAIN submitted |->
       submitted[p] + Cardinality({i \in DOMAIN chunks : p \in SeqRange(chunks[i])})]

LogAttempt(results) ==
    [p \in DOMAIN attempt_log |->
       IF \E i \in DOMAIN results : results[i].page = p
       THEN Append(attempt_log[p],
                   (CHOOSE r \in SeqRange(results) : r.page = p).method)
       ELSE attempt_log[p]]

\* ------------------------------------------------- process_document_async
\* lines 424-449: partition the range, create the semaphore and the tasks
Plan ==
    /\ phase = "Planning"
    /\ LET chunks == MakeChunks(PageList(start_page, end_page), OCR_PAGES_PER_CHUNK)
       IN  /\ page_chunks' = chunks
           /\ tasks' = [i \in DOMAIN chunks |-> NewTask]
           /\ submitted' = CountSubmitted(chunks)
    /\ semaphore' = OCR_CONCURRENT_REQUESTS
    /\ cache0' = cache
    /\ phase' = "Dispatching"
    /\ UNCHANGED <<request, aside, faults, store, call_args, call_ret, batch_no, all_results,
                   failed_pages, retry_attempt, cache, batch_result, llm_calls,
                   llm_log, attempt_log, offline_log, prev, out_of_order>>

\* Acquire as it would be if the gate never made a task wait.
Acquire_NoWait(i) ==
    /\ tasks[i].pc = "waiting"
    /\ LET subset == create_pdf_subset_bytes(PageCount, page_chunks[i])
       IN  IF subset.raised
           THEN /\ tasks' = [tasks EXCEPT
                     ![i].pc = "done",
                     ![i].exc = subset.error,
                     ![i].results = FailedResults(page_chunks[i], subset.error, 0)]
                /\ semaphore' = semaphore
                /\ out_of_order' = (out_of_order \/ FinishesEarly(i))
           ELSE /\ tasks' = [tasks EXCEPT ![i].pc = "lookup"]
                /\ semaphore' = semaphore - 1
                /\ out_of_order' = out_of_order
    /\ UNCHANGED <<request, aside, faults, store, call_args, call_ret, phase, batch_no,
                   page_chunks, all_results, failed_pages, retry_attempt, cache,
                   batch_result, cache0, submitted, llm_calls, llm_log,
                   attempt_log, offline_log, prev>>

\* lines 282-285: "async with semaphore" entered and the subset PDF built; when
\* create_pdf_subset_bytes raises, the except of lines 312-323 ends the task
Acquire(i) ==
    /\ tasks[i].pc = "waiting"
    /\ semaphore > 0
    /\ LET subset == create_pdf_subset_bytes(PageCount, page_chunks[i])
       IN  IF subset.raised
           THEN /\ tasks' = [tasks EXCEPT
                     ![i].pc = "done",
                     ![i].exc = subset.error,
                     ![i].results = FailedResults(page_chunks[i], subset.error, 0)]
                /\ semaphore' = semaphore
                /\ out_of_order' = (out_of_order \/ FinishesEarly(i))
           ELSE /\ tasks' = [tasks EXCEPT ![i].pc = "lookup"]
                /\ semaphore' = semaphore - 1
                /\ out_of_order' = out_of_order
    /\ UNCHANGED <<request, aside, faults, store, call_args, call_ret, phase, batch_no,
                   page_chunks, all_results, failed_pages, retry_attempt, cache,
                   batch_result, cache0, submitted, llm_calls, llm_log,
                   attempt_log, offline_log, prev>>

\* CacheLookup as it would be if a cache hit returned without leaving the gate.
CacheLookup_HitKeepsSlot(i) ==
    /\ tasks[i].pc = "lookup"
    /\ LET key == create_cache_key(doc, page_chunks[i])
       IN  IF key \in DOMAIN cache
           THEN /\ tasks' = [tasks EXCEPT
                     ![i].pc = "done",
                     ![i].combined_text = cache[key].text,
                     ![i].input_tokens = cache[key].input_tokens,
                     ![i].output_tokens = cache[key].output_tokens,
                     ![i].results = SuccessResults(page_chunks[i], cache[key].text,
                                        cache[key].input_tokens,
                                        cache[key].output_tokens, "cached")]
                /\ semaphore' = semaphore
                /\ llm_calls' = llm_calls
           ELSE /\ tasks' = [tasks EXCEPT ![i].pc = "llm"]
                /\ semaphore' = semaphore
                /\ llm_calls' = llm_calls + 1
    /\ out_of_order' = (out_of_order \/ FinishesEarly(i))
    /\ UNCHANGED <<request, aside, faults, store, call_args, call_ret, phase, batch_no,
                   page_chunks, all_results, failed_pages, retry_attempt, cache,
                   batch_result, cache0, submitted, llm_log, attempt_log,
                   offline_log, prev>>

\* lines 200-212: get_cached_ocr under the stable key; a hit ends the task
CacheLookup(i) ==
    /\ tasks[i].pc = "lookup"
    /\ LET key == create_cache_key(doc, page_chunks[i])
       IN  IF key \in DOMAIN cache
           THEN /\ tasks' = [tasks EXCEPT
                     ![i].pc = "done",
                     ![i].combined_text = cache[key].text,
                     ![i].input_tokens = cache[key].input_tokens,
                     ![i].output_tokens = cache[key].output_tokens,
                     ![i].results = SuccessResults(page_chunks[i], cache[key].text,
                                        cache[key].input_tokens,
                                        cache[key].output_tokens, "cached")]
                /\ semaphore' = semaphore + 1
                /\ llm_calls' = llm_calls
           ELSE /\ tasks' = [tasks EXCEPT ![i].pc = "llm"]
                /\ semaphore' = semaphore
                /\ llm_calls' = llm_calls + 1
    /\ out_of_order' = (out_of_order \/ FinishesEarly(i))
    /\ UNCHANGED <<request, aside, faults, store, call_args, call_ret, phase, batch_no,
                   page_chunks, all_results, failed_pages, retry_attempt, cache,
                   batch_result, cache0, submitted, llm_log, attempt_log,
                   offline_log, prev>>

\* LLMReturn as it would be if a raising call left its semaphore slot taken.
LLMReturn_NoRelease(i) ==
    /\ tasks[i].pc = "llm"
    /\ \E o \in LLMOutcomes(page_chunks[i]) :
         /\ llm_log' = Put(llm_log, <<retry_attempt, page_chunks[i]>>, o)
         /\ IF o.kind = "ok"
            THEN tasks' = [tasks EXCEPT ![i].pc = "save",
                                        ![i].combined_text = o.text,
                                        ![i].input_tokens = o.input_tokens,
                                        ![i].output_tokens = o.output_tokens]
            ELSE tasks' = [tasks EXCEPT
                      ![i].pc = "done",
                      ![i].exc = o.msg,
                      ![i].results = FailedResults(page_chunks[i], o.msg, 0)]
    /\ out_of_order' = (out_of_order \/ FinishesEarly(i))
    /\ UNCHANGED <<request, aside, faults, store, call_args, call_ret, phase, batch_no,
                   page_chunks, all_results, failed_pages, retry_attempt, cache,
                   batch_result, cache0, submitted, llm_calls, attempt_log,
                   offline_log, prev, semaphore>>

\* lines 227-245 and 259-261, 312-323: the API call returns or raises
LLMReturn(i) ==
    /\ tasks[i].pc = "llm"
    /\ \E o \in LLMOutcomes(page_chunks[i]) :
         /\ llm_log' = Put(llm_log, <<retry_attempt, page_chunks[i]>>, o)
         /\ IF o.kind = "ok"
            THEN /\ tasks' = [tasks EXCEPT ![i].pc = "save",
                                           ![i].combined_text = o.text,
                                           ![i].input_tokens = o.input_tokens,
                                           ![i].output_tokens = o.output_tokens]
                 /\ semaphore' = semaphore
            ELSE /\ tasks' = [tasks EXCEPT
                      ![i].pc = "done",
                      ![i].exc = o.msg,
                      ![i].results = FailedResults(page_chunks[i], o.msg, 0)]
                 /\ semaphore' = semaphore + 1
    /\ out_of_order' = (out_of_order \/ FinishesEarly(i))
    /\ UNCHANGED <<request, aside, faults, store, call_args, call_ret, phase, batch_no,
                   page_chunks, all_results, failed_pages, retry_attempt, cache,
                   batch_result, cache0, submitted, llm_calls, attempt_log,
                   offline_log, prev>>

\* CacheSave as it would be if the result were never written to the cache.
CacheSave_NoWrite(i) ==
    /\ tasks[i].pc = "save"
    /\ cache' = cache
    /\ tasks' = [tasks EXCEPT
          ![i].pc = "done",
          ![i].results = SuccessResults(page_chunks[i], tasks[i].combined_text,
                                        tasks[i].input_tokens,
                                        tasks[i].output_tokens, "llm")]
    /\ semaphore' = semaphore + 1
    /\ out_of_order' = (out_of_order \/ FinishesEarly(i))
    /\ UNCHANGED <<request, aside, faults, store, call_args, call_ret, phase, batch_no,
                   page_chunks, all_results, failed_pages, retry_attempt,
                   batch_result, cache0, submitted, llm_calls, llm_log,
                   attempt_log, offline_log, prev>>

\* lines 247-257 and 292-310: save_ocr_to_cache, then parse and report
CacheSave(i) ==
    /\ tasks[i].pc = "save"
    /\ cache' = Put(cache, create_cache_key(doc, page_chunks[i]),
                    [text |-> tasks[i].combined_text,
                     input_tokens |-> tasks[i].input_tokens,
                     output_tokens |-> tasks[i].output_tokens])
    /\ tasks' = [tasks EXCEPT
          ![i].pc = "done",
          ![i].results = SuccessResults(page_chunks[i], tasks[i].combined_text,
                                        tasks[i].input_tokens,
                                        tasks[i].output_tokens, "llm")]
    /\ semaphore' = semaphore + 1
    /\ out_of_order' = (out_of_order \/ FinishesEarly(i))
    /\ UNCHANGED <<request, aside, faults, store, call_args, call_ret, phase, batch_no,
                   page_chunks, all_results, failed_pages, retry_attempt,
                   batch_result, cache0, submitted, llm_calls, llm_log,
                   attempt_log, offline_log, prev>>

\* asyncio.gather(..., return_exceptions=True): results in task order
GatherResults(ts) == Flatten([i \in DOMAIN ts |-> ts[i].results])

\* lines 452-475: the initial pass is over
Gather ==
    /\ phase = "Dispatching"
    /\ Gathered
    /\ all_results' = GatherResults(tasks)
    /\ failed_pages' = SelectSeq(all_results', IsFailed)
    /\ attempt_log' = LogAttempt(all_results')
    /\ retry_attempt' = 1
    /\ tasks' = <<>>
    /\ page_chunks' = <<>>
    /\ phase' = "Retrying"
    /\ UNCHANGED <<request, aside, faults, store, call_args, call_ret, batch_no, semaphore,
                   cache, batch_result, cache0, submitted, llm_calls, llm_log,
                   offline_log, prev, out_of_order>>


\* ------------------------------------------------------ retry_failed_chunks
\* lines 352-368: regroup the sorted failed page numbers and create the tasks
\* (the backoff sleep of lines 346-348 precedes it)
\* line 477: range(1, OCR_MAX_RETRIES + 1)
RetryRange_OneMore == 1..(OCR_MAX_RETRIES + 1)

RECURSIVE Pow2(_)
Pow2(n) == IF n = 0 THEN 1 ELSE 2 * Pow2(n - 1)

\* BackoffDelay as it would be if it grew by the base with every attempt.
BackoffDelay_Linear(attempt) == OCR_RETRY_DELAY_BASE * attempt

\* line 347: delay = OCR_RETRY_DELAY_BASE * (2 ** (attempt - 1))
BackoffDelay(attempt) == OCR_RETRY_DELAY_BASE * Pow2(attempt - 1)

\* RetryChunks as it would be if every failed page were retried on its own.
RetryChunks_Singles(failed) == MakeChunks(Sorted(PagesOf(failed)), 1)

\* lines 352-362: the failed pages, sorted, regrouped into chunks
RetryChunks(failed) == MakeChunks(Sorted(PagesOf(failed)), OCR_PAGES_PER_CHUNK)

RetryRange == 1..OCR_MAX_RETRIES

\* RetryStart as it would be without "if not failed_pages: break".
RetryStart_NoBreak ==
    /\ phase = "Retrying"
    /\ tasks = <<>>
    /\ retry_attempt \in RetryRange
    /\ sleep_log' = Append(sleep_log, BackoffDelay(retry_attempt))
    /\ LET chunks == RetryChunks(failed_pages)
       IN  /\ page_chunks' = chunks
           /\ tasks' = [i \in DOMAIN chunks |-> NewTask]
           /\ submitted' = CountSubmitted(chunks)
    /\ retry_attempt' = IF failed_pages = <<>> THEN retry_attempt + 1
                        ELSE retry_attempt
    /\ UNCHANGED <<request, sweep_task, other, faults, store, call_args,
                   call_ret, phase, batch_no, semaphore, all_results,
                   failed_pages, cache, batch_result, cache0, llm_calls,
                   llm_log, attempt_log, offline_log, prev, out_of_order>>

\* lines 477-483 and 346-368: the next attempt: back off, regroup the failed
\* pages, create the tasks
RetryStart ==
    /\ phase = "Retrying"
    /\ tasks = <<>>
    /\ retry_attempt \in RetryRange
    /\ failed_pages # <<>>
    /\ sleep_log' = Append(sleep_log, BackoffDelay(retry_attempt))
    /\ LET chunks == RetryChunks(failed_pages)
       IN  /\ page_chunks' = chunks
           /\ tasks' = [i \in DOMAIN chunks |-> NewTask]
           /\ submitted' = CountSubmitted(chunks)
    /\ UNCHANGED <<request, sweep_task, other, faults, store, call_args,
                   call_ret, phase, batch_no, semaphore, all_results,
                   failed_pages, retry_attempt, cache, batch_result, cache0,
                   llm_calls, llm_log, attempt_log, offline_log, prev,
                   out_of_order>>

\* TagRetry as it would be if the results kept the retry_count they came with.
TagRetry_Untagged(results, attempt) == results

\* lines 373-397: every result of the attempt gets retry_count = attempt
TagRetry(results, attempt) ==
    [i \in DOMAIN results |-> [results[i] EXCEPT !.retry_count = attempt]]

\* lines 493-496: overwrite the first entry of the same page
ReplaceFirst(all, r) ==
    IF \E j \in DOMAIN all : all[j].page = r.page
    THEN LET j == CHOOSE k \in DOMAIN all :
                    /\ all[k].page = r.page
                    /\ \A m \in DOMAIN all : all[m].page = r.page => k <= m
         IN  [all EXCEPT ![j] = r]
    ELSE all

\* lines 489-498: only successful retry results are written back
RECURSIVE MergeRetries(_, _)
MergeRetries(all, retry_results) ==
    IF retry_results = <<>> THEN all
    ELSE MergeRetries(IF Head(retry_results).success
                      THEN ReplaceFirst(all, Head(retry_results))
                      ELSE all,
                      Tail(retry_results))

\* lines 371-397 and 485-500: the attempt is over, merge and loop
RetryCollect ==
    /\ phase = "Retrying"
    /\ AllDone
    /\ LET retry_results == TagRetry(GatherResults(tasks), retry_attempt)
       IN  /\ all_results' = MergeRetries(all_results, retry_results)
           /\ failed_pages' = SelectSeq(retry_results, IsFailed)
           /\ attempt_log' = LogAttempt(retry_results)
    /\ retry_attempt' = retry_attempt + 1
    /\ tasks' = <<>>
    /\ page_chunks' = <<>>
    /\ UNCHANGED <<request, aside, faults, store, call_args, call_ret, phase, batch_no,
                   semaphore, cache, batch_result, cache0, submitted, llm_calls,
                   llm_log, offline_log, prev, out_of_order>>

\* lines 477-479: range exhausted, or nothing left to retry
RetryExit ==
    /\ phase = "Retrying"
    /\ tasks = <<>>
    /\ (failed_pages = <<>> \/ retry_attempt \notin RetryRange)
    /\ phase' = "Fallback"
    /\ UNCHANGED <<request, aside, faults, store, call_args, call_ret, batch_no, page_chunks,
                   tasks, semaphore, all_results, failed_pages, retry_attempt,
                   cache, batch_result, cache0, submitted, llm_calls, llm_log,
                   attempt_log, offline_log, prev, out_of_order>>

\* ---------------------------------------------------------------- fallback
\* FallbackResults as it would be if the page were left marked as failed.
FallbackResults_StillFailed(all, f) ==
    [i \in DOMAIN all |->
       IF all[i].success THEN all[i]
       ELSE [all[i] EXCEPT !.text = f[all[i].page],
                           !.method = "pymupdf_fallback"]]

FallbackResults(all, f) ==
    [i \in DOMAIN all |->
       IF all[i].success THEN all[i]
       ELSE [all[i] EXCEPT !.text = f[all[i].page],
                           !.method = "pymupdf_fallback",
                           !.success = TRUE,
                           !.error = NoError]]

\* ApplyFallback as it would be if the offline text of a page were saved in
\* the cache under the page's key.
ApplyFallback_CachesText ==
    /\ phase = "Fallback"
    /\ LET fp == {all_results[i].page :
                    i \in {j \in DOMAIN all_results : ~all_results[j].success}}
       IN  \E f \in [fp -> UNION {extract_with_pymupdf_fallback(p) : p \in fp}] :
             /\ \A p \in fp : f[p] \in extract_with_pymupdf_fallback(p)
             /\ all_results' = FallbackResults(all_results, f)
             /\ offline_log' = f
             /\ IF fp = {} THEN cache' = cache
                ELSE \E p \in fp :
                       cache' = Put(cache, create_cache_key(doc, <<p>>),
                                    [text |-> f[p], input_tokens |-> 0,
                                     output_tokens |-> 0])
    /\ phase' = "Aggregating"
    /\ UNCHANGED <<request, aside, faults, store, call_args, call_ret, batch_no, page_chunks,
                   tasks, semaphore, failed_pages, retry_attempt,
                   batch_result, cache0, submitted, llm_calls, llm_log,
                   attempt_log, prev, out_of_order>>

\* lines 505-521
ApplyFallback ==
    /\ phase = "Fallback"
    /\ LET fp == {all_results[i].page :
                    i \in {j \in DOMAIN all_results : ~all_results[j].success}}
       IN  \E f \in [fp -> UNION {extract_with_pymupdf_fallback(p) : p \in fp}] :
             /\ \A p \in fp : f[p] \in extract_with_pymupdf_fallback(p)
             /\ all_results' = FallbackResults(all_results, f)
             /\ offline_log' = f
    /\ phase' = "Aggregating"
    /\ UNCHANGED <<request, aside, faults, store, call_args, call_ret, batch_no, page_chunks,
                   tasks, semaphore, failed_pages, retry_attempt, cache,
                   batch_result, cache0, submitted, llm_calls, llm_log,
                   attempt_log, prev, out_of_order>>

\* -------------------------------------------------------------- aggregation
\* list.sort(key=lambda x: x["page"]) (stable)
RECURSIVE InsertByPage(_, _)
InsertByPage(sorted, r) ==
    IF sorted = <<>> THEN <<r>>
    ELSE IF r.page < Head(sorted).page THEN <<r>> \o sorted
    ELSE <<Head(sorted)>> \o InsertByPage(Tail(sorted), r)

RECURSIVE SortByPage(_)
SortByPage(results) ==
    IF results = <<>> THEN <<>>
    ELSE InsertByPage(SortByPage(SubSeq(results, 1, Len(results) - 1)),
                      results[Len(results)])

\* lines 537-538: f"--- Page {page} ---\n{text}" for results with text
HasText(r) == Truthy(r.text)
TextPart(r) == <<Hdr(r.page), WS>> \o r.text
TextParts(results) ==
    LET withText == SelectSeq(results, HasText)
    IN  [i \in DOMAIN withText |-> TextPart(withText[i])]

\* "\n\n".join(text_parts)
RECURSIVE Join(_)
Join(parts) ==
    IF parts = <<>> THEN <<>>
    ELSE IF Len(parts) = 1 THEN Head(parts)
    ELSE Head(parts) \o <<WS, WS>> \o Join(Tail(parts))

IsCached(r) == r.method = "cached"
IsLLM(r) == r.method = "llm"
IsFallback(r) == r.method = "pymupdf_fallback"
IsSuccess(r) == r.success

\* lines 526-584
Compile(results) ==
    [full_text |-> Join(TextParts(results)),
     text_parts |-> TextParts(results),
     total_input_tokens |-> SumOf(results, "input_tokens"),
     total_output_tokens |-> SumOf(results, "output_tokens"),
     successful_pages |-> PagesOf(SelectSeq(results, IsSuccess)),
     failed_pages |-> PagesOf(SelectSeq(results, IsFailed)),
     cached_pages |-> PagesOf(SelectSeq(results, IsCached)),
     llm_pages |-> PagesOf(SelectSeq(results, IsLLM)),
     fallback_pages |-> PagesOf(SelectSeq(results, IsFallback)),
     pages_processed |-> Len(results),
     retry_count |-> SumOf(results, "retry_count"),
     tokens_saved |-> SumOf(SelectSeq(results, IsCached), "input_tokens")
                        + SumOf(SelectSeq(results, IsCached), "output_tokens")]

\* lines 523-584
Aggregate ==
    /\ phase = "Aggregating"
    /\ all_results' = SortByPage(all_results)
    /\ batch_result' = Compile(all_results')
    /\ phase' = "Done"
    /\ sweep_task' = "scheduled"      \* line 559: create_task, not awaited
    /\ UNCHANGED <<request, sleep_log, other, faults, store, call_args, call_ret, batch_no,
                   page_chunks, tasks, semaphore, failed_pages, retry_attempt, cache,
                   cache0, submitted, llm_calls, llm_log, attempt_log, offline_log,
                   prev, out_of_order>>

\* ---------------------------------------------------------- the environment
LogAllOk ==
    /\ \A k \in DOMAIN llm_log : llm_log[k].kind = "ok"
    /\ DOMAIN offline_log = {}

\* The caller submits the same request again (routes/pdf.py, lines 512-540).
NewBatch ==
    /\ phase = "Done"
    /\ batch_no < MaxBatches
    /\ prev' = [valid |-> TRUE, doc |-> doc, all_ok |-> LogAllOk,
                result |-> IF LogAllOk THEN batch_result ELSE NoResult]
    /\ batch_no' = batch_no + 1
    /\ phase' = "Planning"
    /\ page_chunks' = <<>>
    /\ tasks' = <<>>
    /\ semaphore' = 0
    /\ all_results' = <<>>
    /\ failed_pages' = <<>>
    /\ retry_attempt' = 0
    /\ batch_result' = NoResult
    /\ submitted' = [p \in DOMAIN submitted |-> 0]
    /\ llm_calls' = 0
    /\ llm_log' = <<>>
    /\ attempt_log' = [p \in DOMAIN attempt_log |-> <<>>]
    /\ offline_log' = <<>>
    /\ sleep_log' = <<>>
    /\ out_of_order' = FALSE
    /\ UNCHANGED <<request, sweep_task, other, faults, store, call_args, call_ret, cache, cache0>>

Next ==
    \/ Plan
    \/ \E i \in DOMAIN tasks : Acquire(i)
    \/ \E i \in DOMAIN tasks : CacheLookup(i)
    \/ \E i \in DOMAIN tasks : LLMReturn(i)
    \/ \E i \in DOMAIN tasks : CacheSave(i)
    \/ Gather
    \/ RetryStart
    \/ RetryCollect
    \/ RetryExit
    \/ ApplyFallback
    \/ Aggregate
    \/ NewBatch


Spec == Init /\ [][Next]_vars

\* ------------------------------------------------ exceptions inside a task
\* Messages of the exceptions the file, the cache database and the API raise.
OpenError == "cannot open"
CacheReadError == "cache read error"
CacheWriteError == "cache write error"
ApiError == "api error"

\* line 67: pymupdf.open raises (file missing or damaged); lines 312-323
SubsetFails(i) ==
    /\ faults < MaxFaults
    /\ faults' = faults + 1
    /\ tasks[i].pc = "waiting"
    /\ semaphore > 0
    /\ tasks' = [tasks EXCEPT
          ![i].pc = "done",
          ![i].exc = OpenError,
          ![i].results = FailedResults(page_chunks[i], OpenError, 0)]
    /\ semaphore' = semaphore
    /\ out_of_order' = (out_of_order \/ FinishesEarly(i))
    /\ UNCHANGED <<request, aside, store, call_args, call_ret, phase, batch_no,
                   page_chunks, all_results, failed_pages, retry_attempt, cache,
                   batch_result, cache0, submitted, llm_calls, llm_log,
                   attempt_log, offline_log, prev>>

\* line 208: get_cached_ocr raises; nothing in ocr_pdf_subset_with_llm catches
\* it, so it reaches the except of lines 312-323
CacheReadFails(i) ==
    /\ faults < MaxFaults
    /\ faults' = faults + 1
    /\ tasks[i].pc = "lookup"
    /\ tasks' = [tasks EXCEPT
          ![i].pc = "done",
          ![i].exc = CacheReadError,
          ![i].results = FailedResults(page_chunks[i], CacheReadError, 0)]
    /\ semaphore' = semaphore + 1
    /\ out_of_order' = (out_of_order \/ FinishesEarly(i))
    /\ UNCHANGED <<request, aside, store, call_args, call_ret, phase, batch_no,
                   page_chunks, all_results, failed_pages, retry_attempt, cache,
                   batch_result, cache0, submitted, llm_calls, llm_log,
                   attempt_log, offline_log, prev>>

\* lines 227-245: generate_content raises an API error; lines 259-261 re-raise
LLMFails(i) ==
    /\ faults < MaxFaults
    /\ faults' = faults + 1
    /\ tasks[i].pc = "llm"
    /\ llm_log' = Put(llm_log, <<retry_attempt, page_chunks[i]>>,
                      [kind |-> "error", text |-> None, input_tokens |-> 0,
                       output_tokens |-> 0, msg |-> ApiError])
    /\ tasks' = [tasks EXCEPT
          ![i].pc = "done",
          ![i].exc = ApiError,
          ![i].results = FailedResults(page_chunks[i], ApiError, 0)]
    /\ semaphore' = semaphore + 1
    /\ out_of_order' = (out_of_order \/ FinishesEarly(i))
    /\ UNCHANGED <<request, aside, store, call_args, call_ret, phase, batch_no,
                   page_chunks, all_results, failed_pages, retry_attempt, cache,
                   batch_result, cache0, submitted, llm_calls,
                   attempt_log, offline_log, prev>>

\* lines 247-255: save_ocr_to_cache raises after the API call returned; lines
\* 259-261 re-raise it and lines 312-323 fail the chunk
CacheWriteFails(i) ==
    /\ faults < MaxFaults
    /\ faults' = faults + 1
    /\ tasks[i].pc = "save"
    /\ tasks' = [tasks EXCEPT
          ![i].pc = "done",
          ![i].exc = CacheWriteError,
          ![i].results = FailedResults(page_chunks[i], CacheWriteError, 0)]
    /\ semaphore' = semaphore + 1
    /\ out_of_order' = (out_of_order \/ FinishesEarly(i))
    /\ UNCHANGED <<request, aside, store, call_args, call_ret, phase, batch_no,
                   page_chunks, all_results, failed_pages, retry_attempt, cache,
                   batch_result, cache0, submitted, llm_calls, llm_log,
                   attempt_log, offline_log, prev>>

\* One batch with a file, a cache database and an API that may raise.
InitFaults ==
    /\ InitWith(FaultMaxPage, FaultMaxChunk)
    /\ call_args = NoCall
    /\ call_ret = NoCall

NextFaults ==
    \/ Plan
    \/ \E i \in DOMAIN tasks : Acquire(i)
    \/ \E i \in DOMAIN tasks : CacheLookup(i)
    \/ \E i \in DOMAIN tasks : LLMReturn(i)
    \/ \E i \in DOMAIN tasks : CacheSave(i)
    \/ Gather
    \/ RetryStart
    \/ RetryCollect
    \/ RetryExit
    \/ ApplyFallback
    \/ Aggregate
    \/ \E i \in DOMAIN tasks : SubsetFails(i)
    \/ \E i \in DOMAIN tasks : CacheReadFails(i)
    \/ \E i \in DOMAIN tasks : LLMFails(i)
    \/ \E i \in DOMAIN tasks : CacheWriteFails(i)

SpecFaults == InitFaults /\ [][NextFaults]_vars

\* ------------------------------- process_document_async called directly
\* process_document_async is also called without the route in front of it
\* (tests/test_ocr_service.py, line 175): any two integers may arrive as range.
RangePages == 0..(PageCount + 1)

InvalidRange == start_page < 1 \/ end_page > PageCount \/ start_page > end_page

InitRange ==
    /\ start_page \in RangePages
    /\ end_page \in RangePages
    /\ end_page - start_page < RangeMaxLen
    /\ InitBatch(RangePages, MaxPagesPerChunk)
    /\ call_args = NoCall
    /\ call_ret = NoCall

\* One run of process_document_async, from Planning to Done.
NextBatch ==
    \/ Plan
    \/ \E i \in DOMAIN tasks : Acquire(i)
    \/ \E i \in DOMAIN tasks : CacheLookup(i)
    \/ \E i \in DOMAIN tasks : LLMReturn(i)
    \/ \E i \in DOMAIN tasks : CacheSave(i)
    \/ Gather
    \/ RetryStart
    \/ RetryCollect
    \/ RetryExit
    \/ ApplyFallback
    \/ Aggregate

SpecRange == InitRange /\ [][NextBatch]_vars

\* ------------------------------------------------------- one batch, scheduled
\* The event loop runs a coroutine that can continue: the orchestrator after
\* its gather, a task after its await; asyncio.wait_for (line 243) ends an API
\* call that does not return.  So a step that stays possible is taken.
InitLive ==
    /\ InitWith(LiveMaxPage, MaxPagesPerChunk)
    /\ call_args = NoCall
    /\ call_ret = NoCall

SpecLive == InitLive /\ [][NextBatch]_vars /\ WF_vars(NextBatch)

\* ------------------------------------------- the sweep task of line 559
\* asyncio.create_task(clean_old_cache_entries()) hands the sweep to the event
\* loop; process_document_async has no await after it, so the sweep takes its
\* first step after the batch has returned.  Which rows a DELETE removes is
\* decided on timestamps the batch does not see: any set of entries may go.
Restrict(f, K) == [x \in K |-> f[x]]

\* ocr_cache.py, lines 126-140: DELETE ... WHERE created_at < ?
SweepTaskCreated ==
    /\ sweep_task = "scheduled"
    /\ phase = "Done"
    /\ \E K \in SUBSET DOMAIN cache : cache' = Restrict(cache, K)
    /\ sweep_task' = "created"
    /\ UNCHANGED <<request, sleep_log, other, faults, store, call_args, call_ret, phase,
                   batch_no, page_chunks, tasks, semaphore, all_results, failed_pages,
                   retry_attempt, batch_result, cache0, submitted, llm_calls,
                   llm_log, attempt_log, offline_log, prev, out_of_order>>

\* ocr_cache.py, lines 142-160: DELETE ... WHERE last_accessed < ?
SweepTaskAccessed ==
    /\ sweep_task = "created"
    /\ \E K \in SUBSET DOMAIN cache : cache' = Restrict(cache, K)
    /\ sweep_task' = "finished"
    /\ UNCHANGED <<request, sleep_log, other, faults, store, call_args, call_ret, phase,
                   batch_no, page_chunks, tasks, semaphore, all_results, failed_pages,
                   retry_attempt, batch_result, cache0, submitted, llm_calls,
                   llm_log, attempt_log, offline_log, prev, out_of_order>>

\* SweepTaskRaises as it would be if the exception reached the caller of
\* process_document_async in place of its return value.
SweepTaskRaises_IntoCaller ==
    /\ sweep_task \in {"scheduled", "created"}
    /\ phase = "Done"
    /\ sweep_task' = "raised"
    /\ batch_result' = NoResult
    /\ UNCHANGED <<request, sleep_log, other, faults, store, call_args, call_ret, phase,
                   batch_no, page_chunks, tasks, semaphore, all_results, failed_pages,
                   retry_attempt, cache, cache0, submitted, llm_calls,
                   llm_log, attempt_log, offline_log, prev, out_of_order>>

\* aiosqlite.connect or an execute raises (the store is unavailable): the
\* exception ends the sweep task and stays in the task object nobody awaits.
SweepTaskRaises ==
    /\ sweep_task \in {"scheduled", "created"}
    /\ phase = "Done"
    /\ sweep_task' = "raised"
    /\ UNCHANGED <<request, sleep_log, other, faults, store, call_args, call_ret, phase,
                   batch_no, page_chunks, tasks, semaphore, all_results, failed_pages,
                   retry_attempt, cache, batch_result, cache0, submitted, llm_calls,
                   llm_log, attempt_log, offline_log, prev, out_of_order>>

NextSweepTask ==
    \/ NextBatch
    \/ SweepTaskCreated
    \/ SweepTaskAccessed
    \/ SweepTaskRaises

SpecSweepTask == InitLive /\ [][NextSweepTask]_vars

\* ----------------------------------------- a second request in the process
\* The route is a coroutine of the web server: a second request can call
\* process_document_async while the first is at an await.  Of the second call
\* the model keeps its semaphore and the position of its chunk tasks in the
\* initial pass.
OtherInFlight == {i \in DOMAIN other.tasks : other.tasks[i] = "llm"}

\* lines 429-449 in the second call: its own asyncio.Semaphore, its own tasks
OtherPlan ==
    /\ other.phase = "none"
    /\ phase # "Done"
    /\ \E n \in 1..OtherMaxChunks :
         other' = [phase |-> "running",
                   semaphore |-> OCR_CONCURRENT_REQUESTS,
                   tasks |-> [i \in 1..n |-> "waiting"]]
    /\ UNCHANGED <<request, sleep_log, sweep_task, faults, store, call_args, call_ret,
                   phase, batch_no, page_chunks, tasks, semaphore, all_results,
                   failed_pages, retry_attempt, cache, batch_result, cache0,
                   submitted, llm_calls, llm_log, attempt_log, offline_log, prev,
                   out_of_order>>

\* line 282 in the second call: async with semaphore (the one it was given)
OtherAcquire(i) ==
    /\ other.phase = "running"
    /\ other.tasks[i] = "waiting"
    /\ other.semaphore > 0
    /\ other' = [other EXCEPT !.semaphore = @ - 1, !.tasks[i] = "llm"]
    /\ UNCHANGED <<request, sleep_log, sweep_task, faults, store, call_args, call_ret,
                   phase, batch_no, page_chunks, tasks, semaphore, all_results,
                   failed_pages, retry_attempt, cache, batch_result, cache0,
                   submitted, llm_calls, llm_log, attempt_log, offline_log, prev,
                   out_of_order>>

\* lines 282-323 in the second call: the block ends, the slot is given back
OtherRelease(i) ==
    /\ other.phase = "running"
    /\ other.tasks[i] = "llm"
    /\ other' = [other EXCEPT !.semaphore = @ + 1, !.tasks[i] = "done"]
    /\ UNCHANGED <<request, sleep_log, sweep_task, faults, store, call_args, call_ret,
                   phase, batch_no, page_chunks, tasks, semaphore, all_results,
                   failed_pages, retry_attempt, cache, batch_result, cache0,
                   submitted, llm_calls, llm_log, attempt_log, offline_log, prev,
                   out_of_order>>

NextTwoBatches ==
    \/ NextBatch
    \/ OtherPlan
    \/ \E i \in DOMAIN other.tasks : OtherAcquire(i)
    \/ \E i \in DOMAIN other.tasks : OtherRelease(i)

SpecTwoBatches == InitLive /\ [][NextTwoBatches]_vars

\* ============================================================ ocr_cache.py
\* A timestamp is the text SQLite or Python writes: the day, the separator
\* character, the time of day.  Texts are compared character by character.
Space == 32       \* ' ' of CURRENT_TIMESTAMP, 'YYYY-MM-DD HH:MM:SS'
LetterT == 84     \* 'T' of datetime.isoformat(), 'YYYY-MM-DDTHH:MM:SS'

\* lines 39-40, 68: CURRENT_TIMESTAMP at tick t
CurrentTimestamp(t) == <<t \div TicksPerDay, Space, t % TicksPerDay>>

\* lines 130, 138, 150, 158: cutoff.isoformat() for the instant t
IsoFormat(t) == <<t \div TicksPerDay, LetterT, t % TicksPerDay>>

\* the instant a timestamp text stands for
TickOf(ts) == ts[1] * TicksPerDay + ts[3]

\* "created_at < ?" on two texts: binary, left to right
TextLess(a, b) ==
    \E i \in DOMAIN a :
       /\ a[i] < b[i]
       /\ \A j \in 1..(i - 1) : a[j] = b[j]

CacheKeys == {"h1", "h2"}

\* what a save writes: (ocr_text, input_tokens, output_tokens)
Payloads ==
    {[ocr_text |-> <<Txt(1)>>, input_tokens |-> 1, output_tokens |-> 1],
     [ocr_text |-> <<Txt(2)>>, input_tokens |-> 2, output_tokens |-> 2]}

NoPayload == [ocr_text |-> None, input_tokens |-> 0, output_tokens |-> 0]

\* what a call returned: nothing yet, None, a (text, tokens) tuple, or the
\* sweep's end
Ret(kind, w) == [kind |-> kind, value |-> w]
NoRet == Ret("none", NoPayload)
Absent == Ret("absent", NoPayload)
Found(w) == Ret("found", w)
Swept == Ret("swept", NoPayload)

\* lines 33-44: a row of table ocr_cache (the two debugging columns left out)
Row(k, w, created, accessed) ==
    [image_hash |-> k, ocr_text |-> w.ocr_text,
     input_tokens |-> w.input_tokens, output_tokens |-> w.output_tokens,
     created_at |-> created, last_accessed |-> accessed]

PayloadOf(r) ==
    [ocr_text |-> r.ocr_text, input_tokens |-> r.input_tokens,
     output_tokens |-> r.output_tokens]

RowsOf(rows, k) == {r \in rows : r.image_hash = k}

IdleConn == [pc |-> "idle", image_hash |-> "", payload |-> NoPayload,
             stamp |-> <<>>, ret |-> NoRet]

\* A connection that has written and not committed holds the database's write
\* lock; a second writer waits for it.
WriteLocked == \E c \in DOMAIN conn : conn[c].pc # "idle"

\* ------------------------------------------------------- save_ocr_to_cache
\* lines 108-112: INSERT OR REPLACE runs; created_at and last_accessed, not
\* being listed, take CURRENT_TIMESTAMP
SaveExecute(c, k, w) ==
    /\ conn[c].pc = "idle"
    /\ ~WriteLocked
    /\ conn' = [conn EXCEPT ![c] = [pc |-> "inserted", image_hash |-> k,
                                    payload |-> w,
                                    stamp |-> CurrentTimestamp(now),
                                    ret |-> NoRet]]
    /\ UNCHANGED <<batch, db, now, OCR_CACHE_RETENTION_DAYS, last_commit, db0>>

\* INSERT as it would be without the PRIMARY KEY: the old row stays.
InsertOrReplace_KeepOld(rows, r) == rows \cup {r}

\* INSERT OR REPLACE on the PRIMARY KEY: the row of the key, if any, goes.
InsertOrReplace(rows, r) == (rows \ RowsOf(rows, r.image_hash)) \cup {r}

\* line 114: commit
SaveCommit(c) ==
    /\ conn[c].pc = "inserted"
    /\ db' = InsertOrReplace(db, Row(conn[c].image_hash, conn[c].payload,
                                     conn[c].stamp, conn[c].stamp))
    /\ last_commit' = Put(last_commit, conn[c].image_hash,
                          [payload |-> conn[c].payload,
                           replaced |-> RowsOf(db, conn[c].image_hash) # {}])
    /\ conn' = [conn EXCEPT ![c] = IdleConn]
    /\ UNCHANGED <<batch, now, OCR_CACHE_RETENTION_DAYS, db0>>

\* ----------------------------------------------------------- get_cached_ocr
\* lines 66-70: UPDATE ... SET last_accessed = CURRENT_TIMESTAMP WHERE key
GetUpdate(c, k) ==
    /\ conn[c].pc = "idle"
    /\ ~WriteLocked
    /\ conn' = [conn EXCEPT ![c] = [pc |-> "updated", image_hash |-> k,
                                    payload |-> NoPayload,
                                    stamp |-> CurrentTimestamp(now),
                                    ret |-> NoRet]]
    /\ UNCHANGED <<batch, db, now, OCR_CACHE_RETENTION_DAYS, last_commit, db0>>

\* UPDATE touching every row, as it would be without the WHERE clause.
Touch_AllRows(rows, k, stamp) ==
    {[r EXCEPT !.last_accessed = stamp] : r \in rows}

\* the rows after the UPDATE of lines 66-70
Touch(rows, k, stamp) ==
    {IF r.image_hash = k THEN [r EXCEPT !.last_accessed = stamp] ELSE r :
       r \in rows}

\* lines 73-79: SELECT ... WHERE key, fetchone; the connection sees its update
GetSelect(c) ==
    /\ conn[c].pc = "updated"
    /\ LET found == RowsOf(Touch(db, conn[c].image_hash, conn[c].stamp),
                           conn[c].image_hash)
       IN  conn' = [conn EXCEPT
                      ![c].pc = "selected",
                      ![c].ret = IF found = {} THEN Absent
                                 ELSE Found(PayloadOf(CHOOSE r \in found : TRUE))]
    /\ UNCHANGED <<batch, db, now, OCR_CACHE_RETENTION_DAYS, last_commit, db0>>

\* lines 80-84: commit and return
GetCommit(c) ==
    /\ conn[c].pc = "selected"
    /\ db' = Touch(db, conn[c].image_hash, conn[c].stamp)
    /\ conn' = [conn EXCEPT ![c] = [IdleConn EXCEPT !.ret = conn[c].ret,
                                        !.image_hash = conn[c].image_hash]]
    /\ UNCHANGED <<batch, now, OCR_CACHE_RETENTION_DAYS, last_commit, db0>>

\* time passes
Tick ==
    /\ now < CacheMaxNow
    /\ now' = now + 1
    /\ UNCHANGED <<batch, db, conn, OCR_CACHE_RETENTION_DAYS, last_commit, db0>>

\* Calls of save_ocr_to_cache and get_cached_ocr on MaxConns connections.
InitCache ==
    /\ start_page = 1
    /\ end_page = 1
    /\ BatchIdle({1}, 1)
    /\ OCR_CONCURRENT_REQUESTS = 1
    /\ call_args = NoCall
    /\ call_ret = NoCall
    /\ db = {}
    /\ now = 0
    /\ conn = [c \in 1..MaxConns |-> IdleConn]
    /\ OCR_CACHE_RETENTION_DAYS = 1
    /\ last_commit = <<>>
    /\ db0 = {}

NextCache ==
    \/ \E c \in DOMAIN conn, k \in CacheKeys, w \in Payloads : SaveExecute(c, k, w)
    \/ \E c \in DOMAIN conn : SaveCommit(c)
    \/ \E c \in DOMAIN conn, k \in CacheKeys : GetUpdate(c, k)
    \/ \E c \in DOMAIN conn : GetSelect(c)
    \/ \E c \in DOMAIN conn : GetCommit(c)
    \/ Tick

SpecCache == InitCache /\ [][NextCache]_vars

\* ------------------------------------------------- clean_old_cache_entries
\* line 124: cutoff_date = datetime.now() - timedelta(days=retention)
SweepStart(c) ==
    /\ conn[c].pc = "idle"
    /\ conn[c].ret = NoRet
    /\ conn' = [conn EXCEPT
                  ![c].pc = "sweep_created",
                  ![c].stamp = IsoFormat(now - OCR_CACHE_RETENTION_DAYS * TicksPerDay)]
    /\ db0' = db
    /\ UNCHANGED <<batch, db, now, OCR_CACHE_RETENTION_DAYS, last_commit>>

\* lines 127-140: count and delete the rows with created_at < cutoff; line 145:
\* old_access_cutoff = datetime.now() - timedelta(days=retention * 2)
SweepCreated(c) ==
    /\ conn[c].pc = "sweep_created"
    /\ db' = {r \in db : ~TextLess(r.created_at, conn[c].stamp)}
    /\ conn' = [conn EXCEPT
                  ![c].pc = "sweep_accessed",
                  ![c].stamp = IsoFormat(now - OCR_CACHE_RETENTION_DAYS * 2 * TicksPerDay)]
    /\ UNCHANGED <<batch, now, OCR_CACHE_RETENTION_DAYS, last_commit, db0>>

\* lines 147-160: count and delete the rows with last_accessed < cutoff
SweepAccessed(c) ==
    /\ conn[c].pc = "sweep_accessed"
    /\ db' = {r \in db : ~TextLess(r.last_accessed, conn[c].stamp)}
    /\ conn' = [conn EXCEPT ![c].pc = "idle", ![c].ret = Swept]
    /\ UNCHANGED <<batch, now, OCR_CACHE_RETENTION_DAYS, last_commit, db0>>

\* Rows a key may have at tick t: written at some tick, read at a later one.
RowsAt(k, t) ==
    {Row(k, CHOOSE w \in Payloads : w.input_tokens = 1,
         CurrentTimestamp(cr), CurrentTimestamp(ac)) :
       cr \in 0..t, ac \in 0..t}

\* no row of the key, or one that was read no earlier than it was written
TablesOf(k, t) ==
    {{}} \cup {{r} : r \in {x \in RowsAt(k, t) :
                               TickOf(x.created_at) <= TickOf(x.last_accessed)}}

\* One sweep over a table of at most one row per key; the server's local time
\* is UTC, as CURRENT_TIMESTAMP is.
InitSweep ==
    /\ start_page = 1
    /\ end_page = 1
    /\ BatchIdle({1}, 1)
    /\ OCR_CONCURRENT_REQUESTS = 1
    /\ call_args = NoCall
    /\ call_ret = NoCall
    /\ now = SweepNow
    /\ db \in {t1 \cup t2 : t1 \in TablesOf("h1", SweepNow),
                              t2 \in TablesOf("h2", SweepNow)}
    /\ conn = <<IdleConn>>
    /\ OCR_CACHE_RETENTION_DAYS \in 1..MaxRetentionDays
    /\ last_commit = <<>>
    /\ db0 = {}

NextSweep ==
    \/ \E c \in DOMAIN conn : SweepStart(c)
    \/ \E c \in DOMAIN conn : SweepCreated(c)
    \/ \E c \in DOMAIN conn : SweepAccessed(c)

SpecSweep == InitSweep /\ [][NextSweep]_vars

TypeOK ==
    /\ phase \in {"Planning", "Dispatching", "Retrying", "Fallback",
                  "Aggregating", "Done"}
    /\ semaphore \in 0..OCR_CONCURRENT_REQUESTS
    /\ retry_attempt \in 0..(OCR_MAX_RETRIES + 2)


\* ===================================================================== claims
Requested == PageList(start_page, end_page)
Failed(n) == [i \in 1..n |-> "failed"]

\* C1: the text of every BatchResult has exactly one "--- Page N ---" segment
\* for each requested page N and no other, in ascending page order, whatever
\* the chunks' outcomes were (empty LLM or offline text included).
C1_OneSegmentPerPage ==
    phase = "Done" =>
        /\ Len(batch_result.text_parts) = Len(Requested)
        /\ \A i \in DOMAIN batch_result.text_parts :
             /\ i <= Len(Requested)
             /\ Head(batch_result.text_parts[i]) = Hdr(Requested[i])
        /\ batch_result.full_text = Join(batch_result.text_parts)

\* C2: at most OCR_CONCURRENT_REQUESTS chunk tasks are inside the gated
\* section of process_page_chunk at any time, initial pass and retries alike.
C2_ConcurrencyBound ==
    Cardinality(Holders) <= OCR_CONCURRENT_REQUESTS

\* C2 witness: in a retry attempt the gate is full and a task is waiting.
C2_Witness ==
    /\ phase = "Retrying"
    /\ Cardinality(Holders) = OCR_CONCURRENT_REQUESTS
    /\ \E i \in DOMAIN tasks : tasks[i].pc = "waiting"

\* C3: a page is handed to process_page_chunk at most 1 + OCR_MAX_RETRIES
\* times; a page that failed in the initial pass and in every retry was handed
\* to it exactly 1 + OCR_MAX_RETRIES times; and only such a page, after its
\* last retry, is given to the offline extractor.
C3_RetryBound ==
    \A p \in DOMAIN submitted :
        /\ submitted[p] <= 1 + OCR_MAX_RETRIES
        /\ Len(attempt_log[p]) <= 1 + OCR_MAX_RETRIES
        /\ (phase \in {"Fallback", "Aggregating", "Done"}
              /\ attempt_log[p] # <<>>
              /\ \A a \in DOMAIN attempt_log[p] : attempt_log[p][a] = "failed")
             => /\ submitted[p] = 1 + OCR_MAX_RETRIES
                /\ attempt_log[p] = Failed(1 + OCR_MAX_RETRIES)
        /\ p \in DOMAIN offline_log
             => /\ phase \in {"Aggregating", "Done"}
                /\ submitted[p] = 1 + OCR_MAX_RETRIES
                /\ attempt_log[p] = Failed(1 + OCR_MAX_RETRIES)

\* C3 witness: a batch is done in which a page went through every retry and
\* then to the offline extractor, next to a page that did not.
C3_Witness ==
    /\ phase = "Done"
    /\ \E p \in DOMAIN offline_log : submitted[p] = 1 + OCR_MAX_RETRIES
    /\ \E q \in SeqRange(Requested) : q \notin DOMAIN offline_log


\* C4: when the previous batch had every LLM call succeed and the document
\* is unchanged, the repeated request makes no LLM call, reports every
\* requested page as cached and nothing as llm or fallback, and returns the
\* same full text as the previous batch.
C4_WarmCacheIdempotent ==
    (phase = "Done" /\ prev.valid /\ prev.all_ok /\ prev.doc = doc) =>
        /\ llm_calls = 0
        /\ batch_result.cached_pages = Requested
        /\ batch_result.llm_pages = <<>>
        /\ batch_result.fallback_pages = <<>>
        /\ batch_result.full_text = prev.result.full_text

\* C4 witness: a repeated multi-chunk request is done after an all-LLM batch
\* that produced text.
C4_Witness ==
    /\ phase = "Done"
    /\ prev.valid /\ prev.all_ok /\ prev.doc = doc
    /\ batch_no = 2
    /\ Len(batch_result.cached_pages) >= 2
    /\ Len(prev.result.llm_pages) >= 2
    /\ prev.result.full_text # <<>>

\* C6: a page that failed in the initial pass and in retries 1..k-1 and whose
\* LLM call succeeded in retry k ends with method llm, success, retry_count k,
\* is listed in llm_pages, and the batch retry_count is at least k.
C6_RecoveredOnRetryK ==
    phase = "Done" =>
        \A p \in SeqRange(Requested) : \A k \in 1..OCR_MAX_RETRIES :
            attempt_log[p] = Append(Failed(k), "llm") =>
                /\ \E i \in DOMAIN all_results :
                     /\ all_results[i].page = p
                     /\ all_results[i].method = "llm"
                     /\ all_results[i].success
                     /\ all_results[i].retry_count = k
                /\ p \in SeqRange(batch_result.llm_pages)
                /\ batch_result.retry_count >= k

\* C6 witness: a two-page chunk recovered on retry 2 (the spec's scenario).
C6_Witness ==
    /\ phase = "Done"
    /\ \E p \in SeqRange(Requested) :
         /\ p + 1 \in SeqRange(Requested)
         /\ attempt_log[p] = Append(Failed(2), "llm")
         /\ attempt_log[p + 1] = Append(Failed(2), "llm")
         /\ <<2, <<p, p + 1>>>> \in DOMAIN llm_log

\* Pages whose last chunk attempt failed: still failed after the retry loop.
StillFailed ==
    {p \in SeqRange(Requested) :
       attempt_log[p] # <<>> /\ attempt_log[p][Len(attempt_log[p])] = "failed"}

\* C7: every page still failed after the retry loop is finalized by the
\* fallback step with success, method pymupdf_fallback, no error and exactly
\* the text the offline extractor returned; so failed_pages is empty and
\* successful_pages holds every requested page.
C7_FallbackFinalizes ==
    /\ phase \in {"Aggregating", "Done"} =>
         /\ DOMAIN offline_log = StillFailed
         /\ \A p \in StillFailed :
              \E i \in DOMAIN all_results :
                /\ all_results[i].page = p
                /\ all_results[i].success
                /\ all_results[i].method = "pymupdf_fallback"
                /\ all_results[i].error = NoError
                /\ all_results[i].text = offline_log[p]
         /\ \A i \in DOMAIN all_results : all_results[i].success
    /\ phase = "Done" =>
         /\ batch_result.failed_pages = <<>>
         /\ batch_result.successful_pages = Requested

\* C7 witness: a page ended in fallback with the extractor's error placeholder
\* as its text, next to one with extracted text.
C7_Witness ==
    /\ phase = "Done"
    /\ \E p, q \in StillFailed :
         /\ offline_log[p] = <<ExtractErrorTok(p)>>
         /\ offline_log[q] = <<Txt(q)>>


\* ------------------------------------------------------------------ SpecPlan
\* The partition alone, over longer ranges and larger chunk sizes.
InitPlan ==
    /\ InitWith(PlanMaxPage, PlanMaxChunk)
    /\ call_args = NoCall
    /\ call_ret = NoCall

SpecPlan == InitPlan /\ [][Plan]_vars

\* C5: the initial partition is a sequence of non-empty chunks of at most
\* OCR_PAGES_PER_CHUNK consecutive pages whose concatenation is exactly
\* start_page..end_page in order (so the chunks are pairwise disjoint);
\* every chunk but the last is full; pages 1-5 with chunk size 2 give
\* [1,2],[3,4],[5].
C5_Partition ==
    phase = "Dispatching" =>
        /\ Flatten(page_chunks) = Requested
        /\ \A i \in DOMAIN page_chunks :
             /\ Len(page_chunks[i]) >= 1
             /\ Len(page_chunks[i]) <= OCR_PAGES_PER_CHUNK
             /\ i < Len(page_chunks) => Len(page_chunks[i]) = OCR_PAGES_PER_CHUNK
             /\ \A j \in 1..(Len(page_chunks[i]) - 1) :
                  page_chunks[i][j + 1] = page_chunks[i][j] + 1
        /\ \A i, j \in DOMAIN page_chunks :
             i # j => SeqRange(page_chunks[i]) \cap SeqRange(page_chunks[j]) = {}
        /\ Len(tasks) = Len(page_chunks)
        /\ (start_page = 1 /\ end_page = 5 /\ OCR_PAGES_PER_CHUNK = 2)
             => page_chunks = <<<<1, 2>>, <<3, 4>>, <<5>>>>

\* C5 witness: pages 1-5 with chunk size 2 have been partitioned.
C5_Witness ==
    /\ phase = "Dispatching"
    /\ start_page = 1 /\ end_page = 5 /\ OCR_PAGES_PER_CHUNK = 2
    /\ Len(page_chunks) = 3

\* ------------------------------------------------------------------- SpecKey
\* create_cache_key called on two inputs: any two document identities and
\* any two duplicate-free page lists (chunks never repeat a page).
KeyDocs ==
    {[name |-> n, size |-> sz, mtime |-> t] :
       n \in {"a.pdf", "b.pdf"}, sz \in 1..2, t \in 1..2}

KeyPageLists ==
    {pl \in UNION {[1..n -> 1..KeyMaxPage] : n \in 1..KeyMaxLen} :
       \A i, j \in DOMAIN pl : i # j => pl[i] # pl[j]}

InitKey ==
    /\ InitWith(1, 1)
    /\ OCR_CONCURRENT_REQUESTS = 1
    /\ call_args \in [d1 : KeyDocs, p1 : KeyPageLists,
                      d2 : KeyDocs, p2 : KeyPageLists]
    /\ call_ret = NoCall

KeyCall ==
    /\ call_ret = NoCall
    /\ call_ret' = <<create_cache_key(call_args.d1, call_args.p1),
                     create_cache_key(call_args.d2, call_args.p2)>>
    /\ UNCHANGED <<request, aside, faults, store, call_args, phase, batch_no, page_chunks, tasks,
                   semaphore, all_results, failed_pages, retry_attempt, cache,
                   batch_result, cache0, submitted, llm_calls, llm_log,
                   attempt_log, offline_log, prev, out_of_order>>

SpecKey == InitKey /\ [][KeyCall]_vars

\* C9: two calls of create_cache_key return the same key exactly when the
\* document identity (name, size, mtime) and the set of page numbers are the
\* same: the order of the pages does not matter, any differing page number
\* changes the key.
C9_KeyFunctionOfIdentityAndPageSet ==
    call_ret # NoCall =>
        ((call_ret[1] = call_ret[2])
           <=> (/\ call_args.d1 = call_args.d2
                /\ SeqRange(call_args.p1) = SeqRange(call_args.p2)))

\* C9 witness: the same pages in a different order gave the same key.
C9_Witness ==
    /\ call_ret # NoCall
    /\ call_args.d1 = call_args.d2
    /\ call_args.p1 # call_args.p2
    /\ SeqRange(call_args.p1) = SeqRange(call_args.p2)
    /\ call_ret[1] = call_ret[2]

\* ------------------------------------------------------------ claims, again
\* Chunks of this batch whose LLM response parsed in degraded form.
Degraded ==
    {k \in DOMAIN llm_log :
       /\ llm_log[k].kind = "ok"
       /\ Len(k[2]) >= 2
       /\ Len(ReFindall(llm_log[k].text))
            # Len(CleanParts(ReSplit(llm_log[k].text)))}

\* C8: for a chunk of two or more pages whose response does not have as many
\* markers as non-empty segments, the first page gets the whole trimmed
\* response, every other page "[OCR Parsing Failed]", all with success true;
\* these pages are never submitted again nor given to the offline extractor.
C8_ParseDegraded ==
    /\ \A i \in DOMAIN tasks :
         (/\ tasks[i].pc = "done"
          /\ tasks[i].combined_text # None
          /\ Len(page_chunks[i]) >= 2
          /\ Len(ReFindall(tasks[i].combined_text))
               # Len(CleanParts(ReSplit(tasks[i].combined_text))))
         => /\ Len(tasks[i].results) = Len(page_chunks[i])
            /\ \A j \in DOMAIN tasks[i].results :
                 /\ tasks[i].results[j].page = page_chunks[i][j]
                 /\ tasks[i].results[j].success
                 /\ tasks[i].results[j].text =
                      IF j = 1 THEN Strip(tasks[i].combined_text)
                      ELSE <<ParsingFailedTok>>
    /\ \A k \in Degraded : \A p \in SeqRange(k[2]) :
         /\ submitted[p] = k[1] + 1
         /\ p \notin DOMAIN offline_log
         /\ phase = "Done" => p \in SeqRange(batch_result.llm_pages)

\* C8 witness: a batch is done in which a two-page chunk got an answer with
\* text before the first marker, and another page went to offline fallback.
C8_Witness ==
    /\ phase = "Done"
    /\ DOMAIN offline_log # {}
    /\ \E k \in Degraded :
         /\ Head(llm_log[k].text) = Txt(0)
         /\ \E i \in DOMAIN all_results :
              /\ all_results[i].page = k[2][2]
              /\ all_results[i].text = <<ParsingFailedTok>>

\* What the batch returns when its chunks are processed one after the other
\* in task order, each attempt's LLM outcome being the one in llm_log.
NoOutcome == [kind |-> "none"]

RefChunk(chunk, attempt) ==
    LET key == create_cache_key(doc, chunk)
        o == IF <<attempt, chunk>> \in DOMAIN llm_log
             THEN llm_log[<<attempt, chunk>>] ELSE NoOutcome
    IN  IF key \in DOMAIN cache0
        THEN SuccessResults(chunk, cache0[key].text, cache0[key].input_tokens,
                            cache0[key].output_tokens, "cached")
        ELSE IF o.kind = "ok"
        THEN SuccessResults(chunk, o.text, o.input_tokens, o.output_tokens, "llm")
        ELSE IF o.kind = "error"
        THEN FailedResults(chunk, o.msg, 0)
        ELSE <<>>

RefPass(chunks, attempt) ==
    Flatten([i \in DOMAIN chunks |-> RefChunk(chunks[i], attempt)])

RECURSIVE RefRetry(_, _, _)
RefRetry(all, failed, attempt) ==
    IF failed = <<>> \/ attempt \notin RetryRange THEN all
    ELSE LET rr == TagRetry(RefPass(MakeChunks(Sorted(PagesOf(failed)),
                                               OCR_PAGES_PER_CHUNK), attempt),
                            attempt)
         IN  RefRetry(MergeRetries(all, rr), SelectSeq(rr, IsFailed), attempt + 1)

RefResults ==
    LET first == RefPass(MakeChunks(Requested, OCR_PAGES_PER_CHUNK), 0)
        retried == RefRetry(first, SelectSeq(first, IsFailed), 1)
        fp == {retried[i].page : i \in {j \in DOMAIN retried : ~retried[j].success}}
    IN  IF fp \subseteq DOMAIN offline_log
        THEN SortByPage(FallbackResults(retried, offline_log))
        ELSE <<>>

\* C10: the BatchResult is a function of the request, the cache at the start
\* and the outcome of each chunk attempt alone: whatever the order in which
\* the chunk tasks ran and finished, it is the result of processing the
\* chunks one by one, and its pages are in ascending order.
C10_OrderIndependent ==
    phase = "Done" =>
        /\ all_results = RefResults
        /\ batch_result = Compile(RefResults)
        /\ PagesOf(all_results) = Requested
        /\ \A l \in {batch_result.cached_pages, batch_result.llm_pages,
                     batch_result.fallback_pages} :
             \A i, j \in DOMAIN l : i < j => l[i] < l[j]

\* C10 witness: a batch is done in which a task finished before an earlier
\* one and the pages were served from the cache, the LLM and the fallback.
C10_Witness ==
    /\ phase = "Done"
    /\ out_of_order
    /\ batch_result.cached_pages # <<>>
    /\ batch_result.llm_pages # <<>>
    /\ batch_result.fallback_pages # <<>>


\* ---------------------------------------------------------------- C11
\* The step in which task i ends with an exception raised inside its try block.
EndsRaising(i) ==
    /\ i \in DOMAIN tasks'
    /\ tasks[i].pc # "done"
    /\ tasks'[i].pc = "done"
    /\ tasks'[i].exc # NoError

\* C11: whatever exception is raised inside a chunk task (building the subset,
\* the cache lookup, the API call or its timeout, the cache write), the task
\* does not propagate it: it ends with exactly one result per page of its
\* chunk, in chunk order, each with success false, method "failed", no text,
\* zero tokens and the exception's message as error; the sibling tasks of the
\* gather and the batch itself are left as they were.
C11_ExceptionBecomesFailedResults ==
    [][\A i \in DOMAIN tasks :
         EndsRaising(i) =>
           /\ Len(tasks'[i].results) = Len(page_chunks[i])
           /\ \A k \in DOMAIN page_chunks[i] :
                tasks'[i].results[k] =
                  [page |-> page_chunks[i][k], text |-> None,
                   input_tokens |-> 0, output_tokens |-> 0,
                   method |-> "failed", success |-> FALSE,
                   error |-> tasks'[i].exc, retry_count |-> 0]
           /\ \A j \in DOMAIN tasks \ {i} : tasks'[j] = tasks[j]
           /\ phase' = phase
           /\ page_chunks' = page_chunks
           /\ all_results' = all_results]_vars

\* A chunk failed on an exception of the file, the cache or the API while a
\* sibling task of the same gather ended with the LLM's text.
C11_Witness ==
    \E i, j \in DOMAIN tasks :
       /\ i # j
       /\ tasks[i].pc = "done"
       /\ tasks[i].exc \in {OpenError, CacheReadError, CacheWriteError, ApiError}
       /\ tasks[j].pc = "done"
       /\ tasks[j].exc = NoError
       /\ \A k \in DOMAIN tasks[j].results : tasks[j].results[k].method = "llm"


\* ---------------------------------------------------------------- C12
\* C12: a cache I/O error never fails the OCR path.  A task whose cache lookup
\* raised goes on to call the LLM in the same attempt, and a task whose cache
\* write raised after the LLM answered still reports its pages with success
\* true, method "llm" and the LLM's text.
C12_CacheErrorsFailOpen ==
    \A i \in DOMAIN tasks :
       tasks[i].pc = "done" =>
         /\ tasks[i].exc = CacheReadError =>
              <<retry_attempt, page_chunks[i]>> \in DOMAIN llm_log
         /\ tasks[i].exc = CacheWriteError =>
              tasks[i].results =
                SuccessResults(page_chunks[i], tasks[i].combined_text,
                               tasks[i].input_tokens, tasks[i].output_tokens,
                               "llm")


\* ---------------------------------------------------------------- C13
\* C13: a call of process_document_async with a range outside the document
\* (start_page < 1, end_page > page count, or start_page > end_page) is
\* rejected before any work starts: no chunk task is created, no cache lookup
\* or LLM call is made, no retry or offline extraction runs, and no result
\* dictionary is returned.
C13_InvalidRangeRejected ==
    InvalidRange =>
        /\ phase = "Planning"
        /\ tasks = <<>>
        /\ page_chunks = <<>>
        /\ llm_calls = 0
        /\ cache = cache0
        /\ DOMAIN offline_log = {}
        /\ batch_result = NoResult


\* ---------------------------------------------------------------- C14
\* create_pdf_subset_bytes called on a document of 1..PageCount pages with a
\* list of page numbers from 0..PageCount + 1.
SubsetPageLists == UNION {[1..n -> RangePages] : n \in 1..SubsetMaxLen}

InitSubset ==
    /\ InitWith(1, 1)
    /\ OCR_CONCURRENT_REQUESTS = 1
    /\ call_args \in [page_count : 1..PageCount, page_nums : SubsetPageLists]
    /\ call_ret = NoCall

SubsetCall ==
    /\ call_ret = NoCall
    /\ call_ret' = create_pdf_subset_bytes(call_args.page_count,
                                           call_args.page_nums)
    /\ UNCHANGED <<request, aside, faults, store, call_args, phase, batch_no,
                   page_chunks, tasks, semaphore, all_results, failed_pages,
                   retry_attempt, cache, batch_result, cache0, submitted,
                   llm_calls, llm_log, attempt_log, offline_log, prev,
                   out_of_order>>

SpecSubset == InitSubset /\ [][SubsetCall]_vars

\* C14: create_pdf_subset_bytes fails with an out-of-range error whenever at
\* least one of the given page numbers lies outside 1..page count; when it
\* succeeds, the fragment holds exactly the given pages, as many as were
\* requested, in the given order.
C14_SubsetAllOrNothing ==
    call_ret # NoCall =>
        /\ (\E i \in DOMAIN call_args.page_nums :
              ~InDocument(call_args.page_count, call_args.page_nums[i]))
             => call_ret.raised
        /\ ~call_ret.raised => call_ret.pages = call_args.page_nums


\* ---------------------------------------------------------------- C15
\* C15: every batch terminates.  For any valid request and chunk size and
\* whatever each LLM call does (return, raise, time out), the batch reaches
\* Done and returns its result, even when every call fails in the initial
\* pass and in all retries.
C15_BatchTerminates == <>(phase = "Done" /\ batch_result # NoResult)

\* A two-page batch in which every LLM call failed, in the initial pass and in
\* every retry, has returned its result.
C15_Witness ==
    /\ phase = "Done"
    /\ batch_result # NoResult
    /\ Len(Requested) = 2
    /\ \A k \in DOMAIN llm_log : llm_log[k].kind = "error"
    /\ \E k \in DOMAIN llm_log : k[1] = OCR_MAX_RETRIES
    /\ \A i \in DOMAIN Requested : Requested[i] \in DOMAIN offline_log


\* ---------------------------------------------------------------- C16
\* C16: whatever the order in which saves and gets of several connections
\* run, the table holds exactly one row for a key that was ever saved, with
\* the text and token counts of the save that committed last (so saving the
\* same values twice leaves what saving them once leaves), and a get returns
\* the values of one save, never parts of two.
C16_LastCommitWins ==
    /\ \A k \in CacheKeys :
         Cardinality(RowsOf(db, k)) = IF k \in DOMAIN last_commit THEN 1 ELSE 0
    /\ \A k \in DOMAIN last_commit :
         \A r \in RowsOf(db, k) : PayloadOf(r) = last_commit[k].payload
    /\ \A c \in DOMAIN conn :
         conn[c].pc = "selected" =>
           /\ conn[c].ret \in {Absent} \cup {Found(w) : w \in Payloads}
           /\ conn[c].ret = Absent <=> conn[c].image_hash \notin DOMAIN last_commit
           /\ conn[c].ret # Absent =>
                conn[c].ret = Found(last_commit[conn[c].image_hash].payload)

\* A key was saved twice, the second save replacing the row of the first with
\* other values, and a get on another connection has read the second's values.
C16_Witness ==
    \E k \in DOMAIN last_commit, c \in DOMAIN conn :
       /\ last_commit[k].replaced
       /\ \E r \in RowsOf(db, k) : r.created_at # CurrentTimestamp(0)
       /\ conn[c].pc = "selected"
       /\ conn[c].image_hash = k
       /\ conn[c].ret = Found(last_commit[k].payload)

\* ---------------------------------------------------------------- C17
\* The instants before which the sweep is to remove.
CreatedCutoff == now - OCR_CACHE_RETENTION_DAYS * TicksPerDay
AccessedCutoff == now - OCR_CACHE_RETENTION_DAYS * 2 * TicksPerDay

\* created more than N days ago, or last read more than 2N days ago
Stale(r) ==
    \/ TickOf(r.created_at) < CreatedCutoff
    \/ TickOf(r.last_accessed) < AccessedCutoff

\* created less than N days ago and last read less than 2N days ago
Fresh(r) ==
    /\ TickOf(r.created_at) > CreatedCutoff
    /\ TickOf(r.last_accessed) > AccessedCutoff

\* C17: after clean_old_cache_entries with a retention of N days, no row is
\* left that was created more than N days ago or last read more than 2N days
\* ago, and every row created within the last N days and read within the last
\* 2N days is still there, unchanged.
C17_SweepKeepsFresh ==
    \A c \in DOMAIN conn :
       conn[c].ret = Swept =>
         /\ \A r \in db : ~Stale(r)
         /\ \A r \in db0 : Fresh(r) => r \in db

\* ---------------------------------------------------------------- C18
\* C18: get_cached_ocr on a key that has a row returns the row's text and
\* token counts and changes nothing but that row's last_accessed; on a key
\* without a row it returns None and leaves the table as it was.
C18_GetTouchesOnlyLastAccessed ==
    [][\A c \in DOMAIN conn :
         (conn[c].pc = "selected" /\ conn'[c].pc = "idle") =>
           LET k == conn[c].image_hash
           IN  IF RowsOf(db, k) # {}
               THEN /\ \A r \in RowsOf(db, k) :
                         /\ conn'[c].ret = Found(PayloadOf(r))
                         /\ [r EXCEPT !.last_accessed = conn[c].stamp] \in db'
                    /\ \A r \in db : r.image_hash # k => r \in db'
                    /\ Cardinality(db') = Cardinality(db)
               ELSE /\ conn'[c].ret = Absent
                    /\ db' = db]_vars

\* A get has returned the values of a row whose last_accessed is now later
\* than its created_at, while the other key's row still carries the time of
\* its save.
C18_Witness ==
    \E c \in DOMAIN conn, r \in db, o \in db :
       /\ conn[c].pc = "idle"
       /\ conn[c].ret = Found(PayloadOf(r))
       /\ conn[c].image_hash = r.image_hash
       /\ TickOf(r.last_accessed) > TickOf(r.created_at)
       /\ o.image_hash # r.image_hash
       /\ o.last_accessed = o.created_at
       /\ TickOf(o.created_at) < TickOf(r.last_accessed)


\* ---------------------------------------------------------------- C19
PhaseOrder ==
    {<<"Planning", "Dispatching">>, <<"Dispatching", "Retrying">>,
     <<"Retrying", "Fallback">>, <<"Fallback", "Aggregating">>,
     <<"Aggregating", "Done">>}

\* C19: the phases of a batch follow one another in the order Planning,
\* Dispatching, Retrying (attempts 1..OCR_MAX_RETRIES), Fallback, Aggregating,
\* Done, never backwards.  The tasks of a gather are collected, and the tasks
\* of the next attempt created, only when every task of the running gather has
\* completed; the attempt number only grows, by one; the offline extractor
\* runs only in Fallback, after the retry loop has ended; aggregation starts
\* only when no page is left failed.
C19_PhasesInOrder ==
    [][/\ phase' # phase =>
            \/ <<phase, phase'>> \in PhaseOrder
            \/ phase = "Done" /\ phase' = "Planning" /\ batch_no' = batch_no + 1
       /\ tasks' # <<>> =>
            /\ phase' \in {"Dispatching", "Retrying"}
            /\ phase' = "Retrying" => retry_attempt' \in 1..OCR_MAX_RETRIES
       /\ page_chunks' # page_chunks =>
            \A i \in DOMAIN tasks : tasks[i].pc = "done"
       /\ (retry_attempt' # retry_attempt /\ batch_no' = batch_no) =>
            /\ retry_attempt' = retry_attempt + 1
            /\ \A i \in DOMAIN tasks : tasks[i].pc = "done"
            /\ tasks' = <<>>
       /\ offline_log' # offline_log /\ batch_no' = batch_no =>
            /\ phase = "Fallback"
            /\ tasks = <<>>
            /\ failed_pages = <<>> \/ retry_attempt > OCR_MAX_RETRIES
       /\ phase' = "Aggregating" =>
            \A i \in DOMAIN all_results' : all_results'[i].success]_vars

\* A batch has gone through the initial pass, all OCR_MAX_RETRIES attempts,
\* the offline fallback and the aggregation.
C19_Witness ==
    /\ phase = "Done"
    /\ retry_attempt = OCR_MAX_RETRIES + 1
    /\ DOMAIN offline_log # {}
    /\ \E k \in DOMAIN llm_log : k[1] = OCR_MAX_RETRIES


\* ---------------------------------------------------------------- C20
\* C20: after each retry attempt the running list holds, for every page of the
\* attempt, the result that attempt produced, failed ones included: a page
\* that failed again in attempt k stands there with retry_count = k and the
\* error of attempt k, so a page that reaches the offline fallback after all
\* OCR_MAX_RETRIES attempts carries retry_count = OCR_MAX_RETRIES.
C20_AggregateHoldsLatestAttempt ==
    /\ (phase = "Retrying" /\ tasks = <<>>) =>
         \A i \in DOMAIN failed_pages :
            \E j \in DOMAIN all_results : all_results[j] = failed_pages[i]
    /\ phase = "Done" =>
         \A j \in DOMAIN all_results :
            (/\ all_results[j].page \in DOMAIN offline_log
             /\ Len(attempt_log[all_results[j].page]) = OCR_MAX_RETRIES + 1)
              => all_results[j].retry_count = OCR_MAX_RETRIES


\* ---------------------------------------------------------------- C21
\* The pages whose result of attempt a (0 = initial pass) was a failure.
FailedIn(a) ==
    {p \in DOMAIN attempt_log :
       Len(attempt_log[p]) > a /\ attempt_log[p][a + 1] = "failed"}

\* The initial pass has been collected.
PastInitialPass == phase \in {"Retrying", "Fallback", "Aggregating", "Done"}

\* C21: the retry loop ends as soon as no page is failed.  When no page failed
\* in the initial pass there is no retry attempt, no backoff delay, no offline
\* extraction, and the batch retry_count is 0; retry attempt k runs only when
\* some page failed in attempt k - 1, so once every failed page has been
\* recovered no further attempt runs.
C21_RetryLoopExitsEarly ==
    PastInitialPass =>
        /\ FailedIn(0) = {} =>
             /\ sleep_log = <<>>
             /\ \A p \in DOMAIN attempt_log : Len(attempt_log[p]) <= 1
             /\ \A p \in DOMAIN submitted : submitted[p] <= 1
             /\ DOMAIN offline_log = {}
             /\ phase = "Done" => batch_result.retry_count = 0
        /\ \A k \in 1..OCR_MAX_RETRIES :
             (\/ Len(sleep_log) >= k
              \/ \E p \in DOMAIN attempt_log : Len(attempt_log[p]) > k)
               => FailedIn(k - 1) # {}
        /\ Len(sleep_log) <= OCR_MAX_RETRIES

\* A two-page batch whose failed page was recovered in attempt 1 ended after
\* that attempt: one backoff delay, no offline extraction.
C21_Witness ==
    /\ phase = "Done"
    /\ Len(Requested) = 2
    /\ FailedIn(0) # {}
    /\ FailedIn(1) = {}
    /\ Len(sleep_log) = 1
    /\ DOMAIN offline_log = {}
    /\ batch_result.retry_count >= 1


\* ---------------------------------------------------------------- C23
\* C23: before the chunks of retry attempt a are submitted, exactly
\* OCR_RETRY_DELAY_BASE * 2^(a-1) time units are waited (1, 2, 4 for base 1
\* and three retries); nothing is waited before the initial pass, and each
\* delay is twice the one before it.
C23_ExponentialBackoff ==
    /\ phase \in {"Planning", "Dispatching"} => sleep_log = <<>>
    /\ (phase = "Retrying" /\ tasks # <<>>) => Len(sleep_log) = retry_attempt
    /\ \A a \in DOMAIN sleep_log :
         /\ sleep_log[a] = OCR_RETRY_DELAY_BASE * 2^(a - 1)
         /\ a > 1 => sleep_log[a] = 2 * sleep_log[a - 1]
    /\ sleep_log = SubSeq(<<1, 2, 4>>, 1, Len(sleep_log))

\* The tasks of the third retry attempt are running after delays of 1, 2 and 4.
C23_Witness ==
    /\ phase = "Retrying"
    /\ tasks # <<>>
    /\ retry_attempt = OCR_MAX_RETRIES
    /\ sleep_log = <<1, 2, 4>>


\* ---------------------------------------------------------------- C22
\* C22: retries touch only failed pages.  A page whose entry in the running
\* list has success true is in no chunk of a later retry attempt, is not
\* handed to the offline extractor, and its entry (text, tokens, method,
\* retry_count) is left as it is by every later step of the batch.
C22_SuccessfulPagesUntouched ==
    [][batch_no' = batch_no =>
         \A j \in DOMAIN all_results :
            all_results[j].success =>
              /\ page_chunks' # page_chunks =>
                   \A i \in DOMAIN page_chunks' :
                      all_results[j].page \notin SeqRange(page_chunks'[i])
              /\ offline_log' # offline_log =>
                   all_results[j].page \notin DOMAIN offline_log'
              /\ \E k \in DOMAIN all_results' :
                   all_results'[k] = all_results[j]]_vars

\* Of three pages one was read by the LLM in the initial pass and is still as
\* it was at the end, one was recovered in a retry, one was extracted offline.
C22_Witness ==
    /\ phase = "Done"
    /\ \E i, j, k \in DOMAIN all_results :
         /\ all_results[i].method = "llm" /\ all_results[i].retry_count = 0
         /\ all_results[j].method = "llm" /\ all_results[j].retry_count > 0
         /\ all_results[k].method = "pymupdf_fallback"


\* ---------------------------------------------------------------- C24
\* q is the floor of t / n
IsFloor(q, t, n) == n * q <= t /\ t < n * (q + 1)

\* the task's chunk ended in success (cache hit or LLM answer)
ChunkSucceeded(i) ==
    /\ tasks[i].pc = "done"
    /\ tasks[i].results # <<>>
    /\ \A j \in DOMAIN tasks[i].results : tasks[i].results[j].success

\* C24: token attribution.  A successful chunk of n pages whose result carries
\* T input and U output tokens gives each of its n pages floor(T/n) and
\* floor(U/n), so the pages sum to at most T and U with fewer than n tokens
\* dropped per counter; failed and offline-extracted pages carry 0 tokens, and
\* the batch totals are the sums over the pages.
C24_TokensDividedByPages ==
    /\ \A i \in DOMAIN tasks :
         ChunkSucceeded(i) =>
           LET n == Len(page_chunks[i])
               T == tasks[i].input_tokens
               U == tasks[i].output_tokens
               res == tasks[i].results
           IN  /\ Len(res) = n
               /\ \A j \in DOMAIN res :
                    /\ IsFloor(res[j].input_tokens, T, n)
                    /\ IsFloor(res[j].output_tokens, U, n)
               /\ SumOf(res, "input_tokens") <= T
               /\ SumOf(res, "output_tokens") <= U
               /\ T - SumOf(res, "input_tokens") < n
               /\ U - SumOf(res, "output_tokens") < n
    /\ \A j \in DOMAIN all_results :
         (~all_results[j].success \/ all_results[j].method = "pymupdf_fallback") =>
            all_results[j].input_tokens = 0 /\ all_results[j].output_tokens = 0
    /\ phase = "Done" =>
         LET paid == SelectSeq(all_results,
                       LAMBDA r : r.method \in {"cached", "llm"})
         IN  /\ batch_result.total_input_tokens = SumOf(paid, "input_tokens")
             /\ batch_result.total_output_tokens = SumOf(paid, "output_tokens")

\* A batch ended with a two-page chunk that dropped a token of each counter
\* and with a page extracted offline.
C24_Witness ==
    /\ phase = "Done"
    /\ \E i, k \in DOMAIN all_results :
         /\ i # k
         /\ all_results[i].method = "llm" /\ all_results[k].method = "llm"
         /\ all_results[i].input_tokens + all_results[k].input_tokens < UsageIn
         /\ all_results[i].output_tokens + all_results[k].output_tokens < UsageOut
    /\ \E j \in DOMAIN all_results : all_results[j].method = "pymupdf_fallback"
    /\ batch_result.total_input_tokens \in 1..(UsageIn - 1)
    /\ batch_result.total_output_tokens \in 1..(UsageOut - 1)


\* ---------------------------------------------------------------- C25
\* C25: the retention sweep scheduled at the end of a batch never affects the
\* batch.  The batch returns while the sweep is still only scheduled, and
\* whatever the sweep does afterwards (delete entries, raise) leaves the
\* returned BatchResult as it is and raises nothing into the caller.
C25_SweepNeverAffectsBatch ==
    [][/\ (phase # "Done" /\ phase' = "Done") =>
             /\ sweep_task' = "scheduled"
             /\ batch_result' # NoResult
       /\ phase = "Done" =>
             /\ phase' = "Done"
             /\ batch_result' = batch_result
             /\ all_results' = all_results]_vars

\* The sweep removed a cache entry the batch had written and then raised; the
\* batch's result is still the one compiled from its pages.
C25_Witness ==
    /\ phase = "Done"
    /\ sweep_task = "raised"
    /\ \E r \in DOMAIN all_results : all_results[r].method = "llm"
    /\ DOMAIN cache = {}
    /\ batch_result = Compile(all_results)


\* ---------------------------------------------------------------- C26
\* chunk tasks of the first call whose LLM call is in flight
InFlight == {i \in DOMAIN tasks : tasks[i].pc = "llm"}

\* C26: the concurrency gate is global.  With two process_document_async
\* calls running at the same time in one process, the number of chunk tasks
\* with an LLM call in flight, counted over both calls, never exceeds
\* OCR_CONCURRENT_REQUESTS.
C26_GateIsGlobal ==
    Cardinality(InFlight) + Cardinality(OtherInFlight) <= OCR_CONCURRENT_REQUESTS


\* ---------------------------------------------------------------- C27
\* the chunks of the initial partition of the request
InitialChunks == SeqRange(MakeChunks(Requested, OCR_PAGES_PER_CHUNK))

\* C27: every chunk a retry attempt builds from the sorted failed pages is one
\* of the chunks of the initial partition, so no attempt sends the LLM a page
\* set, or uses a cache key, that the initial pass of the request does not use.
C27_RetryChunksAreInitialChunks ==
    /\ \A i \in DOMAIN page_chunks : page_chunks[i] \in InitialChunks
    /\ \A k \in DOMAIN llm_log : k[2] \in InitialChunks
    /\ \A key \in DOMAIN cache :
          \E c \in InitialChunks : key = create_cache_key(doc, c)

\* A retry attempt rebuilt the short last chunk of a partition of several
\* chunks and sent it to the LLM again.
C27_Witness ==
    /\ phase = "Retrying"
    /\ retry_attempt >= 2
    /\ Cardinality(InitialChunks) >= 2
    /\ \E i \in DOMAIN page_chunks :
         /\ Len(page_chunks[i]) < OCR_PAGES_PER_CHUNK
         /\ tasks[i].pc = "llm"
         /\ <<retry_attempt - 1, page_chunks[i]>> \in DOMAIN llm_log


\* ---------------------------------------------------------------- C28
\* C28: semaphore slots are conserved.  From the creation of the semaphore on,
\* the free slots and the chunk tasks inside the gated section add up to
\* OCR_CONCURRENT_REQUESTS, whichever way a task left the section (success,
\* cache hit, caught exception); so when no task is inside (between the
\* passes, and at Done) every slot is free.
C28_SlotsConserved ==
    phase # "Planning" =>
       /\ semaphore + Cardinality(Holders) = OCR_CONCURRENT_REQUESTS
       /\ semaphore \in 0..OCR_CONCURRENT_REQUESTS
       /\ (tasks = <<>> \/ Gathered \/ phase = "Done") =>
             semaphore = OCR_CONCURRENT_REQUESTS

\* A batch ended with a page served from the cache, a page read by the LLM
\* and a page whose every call raised, and all slots are free.
C28_Witness ==
    /\ phase = "Done"
    /\ semaphore = OCR_CONCURRENT_REQUESTS
    /\ batch_result.cached_pages # <<>>
    /\ batch_result.llm_pages # <<>>
    /\ batch_result.fallback_pages # <<>>


\* ---------------------------------------------------------------- C29
NoRepeats(s) == Cardinality(SeqRange(s)) = Len(s)

\* C29: result accounting.  From the end of the initial pass on, through the
\* retry merges and the fallback, the running results hold exactly one entry
\* for each requested page and none for another page.  In the batch result
\* pages_processed = end_page - start_page + 1; successful_pages and
\* failed_pages are disjoint and together the requested pages; cached_pages,
\* llm_pages and fallback_pages are pairwise disjoint and together
\* successful_pages.
C29_OneResultPerPage ==
    /\ PastInitialPass =>
         /\ NoRepeats(PagesOf(all_results))
         /\ SeqRange(PagesOf(all_results)) = SeqRange(Requested)
    /\ phase = "Done" =>
         LET b == batch_result
             ok == SeqRange(b.successful_pages)
             bad == SeqRange(b.failed_pages)
             c == SeqRange(b.cached_pages)
             l == SeqRange(b.llm_pages)
             f == SeqRange(b.fallback_pages)
         IN  /\ b.pages_processed = end_page - start_page + 1
             /\ NoRepeats(b.successful_pages) /\ NoRepeats(b.failed_pages)
             /\ NoRepeats(b.cached_pages) /\ NoRepeats(b.llm_pages)
             /\ NoRepeats(b.fallback_pages)
             /\ ok \cap bad = {}
             /\ ok \cup bad = SeqRange(Requested)
             /\ c \cap l = {} /\ c \cap f = {} /\ l \cap f = {}
             /\ c \cup l \cup f = ok


\* ---------------------------------------------------------------- C30
\* what save_ocr_to_cache stores for an answer of the LLM
EntryOf(o) ==
    [text |-> o.text, input_tokens |-> o.input_tokens,
     output_tokens |-> o.output_tokens]

\* the cache entry under key was written in this batch, from an answer to c
WrittenFor(key, c) ==
    /\ key = create_cache_key(doc, c)
    /\ \E a \in 0..OCR_MAX_RETRIES :
         /\ <<a, c>> \in DOMAIN llm_log
         /\ llm_log[<<a, c>>].kind = "ok"
         /\ cache[key] = EntryOf(llm_log[<<a, c>>])

\* the task was served from the cache
ServedFromCache(i) ==
    /\ tasks[i].pc = "done"
    /\ tasks[i].results # <<>>
    /\ tasks[i].results[1].method = "cached"

\* C30: what the cache holds.  The cache changes only in the step that follows
\* a successful LLM call, which stores that call's raw response under the
\* chunk's stable key; a failed attempt and the offline fallback write
\* nothing.  A chunk served from the cache gets the stored response as it was
\* written, with no LLM call, so a repeated request after a batch of
\* successful calls returns the same per-page texts, degraded ones included.
C30_CacheHoldsRawResponses ==
    /\ [](/\ phase # "Planning" =>
               \A key \in DOMAIN cache :
                  \/ key \in DOMAIN cache0 /\ cache[key] = cache0[key]
                  \/ \E c \in InitialChunks : WrittenFor(key, c)
          /\ \A i \in DOMAIN tasks :
               ServedFromCache(i) =>
                 LET key == create_cache_key(doc, page_chunks[i])
                 IN  /\ key \in DOMAIN cache0
                     /\ tasks[i].combined_text = cache0[key].text
                     /\ \A a \in 0..OCR_MAX_RETRIES :
                          <<a, page_chunks[i]>> \notin DOMAIN llm_log
          /\ (phase = "Done" /\ prev.valid /\ prev.all_ok /\ prev.doc = doc) =>
               /\ llm_calls = 0
               /\ batch_result.text_parts = prev.result.text_parts)
    /\ [][cache' # cache =>
            \E i \in DOMAIN tasks :
               LET k == <<retry_attempt, page_chunks[i]>>
               IN  /\ tasks[i].pc = "save" /\ tasks'[i].pc = "done"
                   /\ k \in DOMAIN llm_log
                   /\ llm_log[k].kind = "ok"
                   /\ cache' = Put(cache, create_cache_key(doc, page_chunks[i]),
                                   EntryOf(llm_log[k]))]_vars

\* The first batch cached a response that parsed in degraded form; the
\* repeated request is done without an LLM call and reports the same
\* "[OCR Parsing Failed]" page from the cache.
C30_Witness ==
    /\ phase = "Done"
    /\ batch_no = 2
    /\ prev.valid /\ prev.all_ok
    /\ llm_calls = 0
    /\ \E i \in DOMAIN all_results :
         /\ all_results[i].method = "cached"
         /\ all_results[i].text = <<ParsingFailedTok>>
    /\ \E key \in DOMAIN cache :
         Len(ReFindall(cache[key].text)) # Len(CleanParts(ReSplit(cache[key].text)))

====
